---- MODULE Spec2Model ----
(***************************************************************************)
(* Client-side synchronisation layer of the Multi-Agent-Orchestrator       *)
(* frontend: the StatusPoller of utils/api.js and the StateManager of      *)
(* utils/state.js, each as a state machine translated from its source.     *)
(***************************************************************************)
EXTENDS Integers, Sequences, FiniteSets, TLC

(***************************************************************************)
(* Bounds of the model.                                                    *)
(***************************************************************************)
\* how many times start() may open a polling session on the one instance
MaxSessions == 2
\* how many times updateOptions() is called on the instance
MaxOptionUpdates == 1
\* how many times the approval lock is taken or released
MaxLockChanges == 1
\* a poller is restarted, and its options are updated, within this many
\* getStatus calls of its construction
RestartWindow == 1
\* the small attempt budget offered to options.maxAttempts
SmallAttempts == 2
\* how far above the consecutive-error ceiling the large attempt budget lies
AttemptsAboveCeiling == 1
\* how many setState, reset, rollback and setDebugMode calls are made
MaxWrites == 2
\* how many values callers take from getState()
MaxCopies == 1
\* how many assignments callers and listeners make to objects they hold
MaxMutations == 2
\* the largest argument given to rollback()
MaxSteps == 2
\* how far the clock advances
MaxClock == 1
MaxSubscriptions == 3
MaxRemovals == 1
MaxEmits == 2
MaxDepth == 2

\* the requests, approvals, cancellations and status checks of the user, and
\* the pollers the service constructs
MaxRequests == 2
MaxApprovals == 1
MaxCancels == 1
MaxChecks == 1
MaxPollers == 2

\* maxAttempts of the pollers of the service (600) and of the gentle polling
\* (60), scaled down
ServiceAttempts == 1
GentleAttempts == 1

(***************************************************************************)
(* StatusPoller: constants of the source.                                  *)
(***************************************************************************)
\* this.maxConsecutiveErrors = 10
maxConsecutiveErrors == 10

\* this.timeoutId = null
NULL == 0

\* this.maxHistorySize = 50
maxHistorySize == 50

\* finalStatuses of shouldStopPolling
finalStatuses == {"completed", "failed", "cancelled"}

\* the workflow statuses a transport reports; "finalizing" has no entry in the
\* default statusIntervals table
Statuses == {"executing", "finalizing"} \cup finalStatuses

\* what one getStatus call settles to: a result with success true and a status,
\* a result with success false, or a rejected promise
Responses ==
    [kind : {"ok"}, status : Statuses]
        \cup {[kind |-> "fail", status |-> "none"], [kind |-> "reject", status |-> "none"]}

\* the transport a poller is constructed with: one whose every call fails
\* (returns success false, or rejects), one that always reports executing, and
\* one that may answer each call with any response
Transports == {"failing", "executing", "flaky"}

\* the milliseconds between the request and the response: the transports of
\* the model answer a call that succeeds sooner than they give up on one
ResponseTimes(resp) == IF resp.kind = "ok" THEN {2} ELSE {4}

Replies(t) ==
    CASE t = "failing"   -> {r \in Responses : r.kind # "ok"}
      [] t = "executing" -> {[kind |-> "ok", status |-> "executing"]}
      [] t = "flaky"     -> Responses

\* the onUpdate a poller is constructed with: it returns, it throws, or it
\* calls stop() or start() on the poller that invoked it
CallbackBehaviours == {"return", "throw", "stop", "start"}

\* statusIntervals tables: the default shape (final statuses mapped to 0),
\* one with an entry above maxInterval, and one that maps a status that is
\* not final to 0
StatusIntervalChoices ==
    { [s \in {"executing"} \cup finalStatuses |-> IF s = "executing" THEN 2 ELSE 0],
      [s \in {"executing"} \cup finalStatuses |-> IF s = "executing" THEN 8 ELSE 0],
      [s \in {"executing"} \cup finalStatuses |-> 0] }

\* the options a poller is constructed with ({...defaults, ...options})
AllOptions ==
    [ interval          : {2, 8},
      maxAttempts       : {SmallAttempts, maxConsecutiveErrors,
                           maxConsecutiveErrors + AttemptsAboveCeiling},
      backoffMultiplier : {1, 2},
      maxInterval       : {4},
      adaptivePolling   : BOOLEAN,
      statusIntervals   : StatusIntervalChoices ]

\* the options of the source's defaults, scaled down
DefaultIntervals(o) ==
    /\ o.interval = 2 /\ o.backoffMultiplier = 2 /\ o.adaptivePolling
    /\ o.statusIntervals["executing"] = 2

\* what a poller is constructed with. The long attempt budgets are explored
\* with the default intervals and the two fixed transports; the small budget
\* with the flaky transport, and there every interval configuration with a
\* callback that returns, every callback with the default intervals.
Constructions ==
    { c \in [options : AllOptions, transport : Transports,
              callback : CallbackBehaviours] :
        IF c.options.maxAttempts > SmallAttempts
        THEN c.transport # "flaky" /\ DefaultIntervals(c.options)
        ELSE c.transport = "flaky"
                /\ (c.callback = "return" \/ DefaultIntervals(c.options)) }

\* partial options passed to updateOptions
OptionUpdates ==
    { [interval |-> 8], [maxInterval |-> 2], [maxAttempts |-> SmallAttempts + 1] }

VARIABLES
    \* the transport and the onUpdate callback given to the constructor
    transport, callback,
    \* StatusPoller fields
    options, isPolling, attempts, currentInterval, timeoutId, lastStatus,
    consecutiveErrors, stats,
    \* window.clarityApiService.approvalStateLocked, read by poll()
    approvalStateLocked,
    \* the host: pending setTimeout timers, the next timer id, and the
    \* getStatus promises not yet settled (one suspended poll() each)
    timers, nextTimerId, inflight,
    \* what an observer of the poller has seen so far
    log

pollerVars ==
    << transport, callback, options, isPolling, attempts, currentInterval, timeoutId, lastStatus,
       consecutiveErrors, stats, approvalStateLocked, timers, nextTimerId,
       inflight, log >>

VARIABLES
    \* the objects of the page, by address: the StateManager's own and those
    \* that callers and listeners hold
    heap,
    \* StateManager fields: state and the history entries' state are addresses
    state, history, debugMode,
    \* the clock that new Date() reads
    now,
    \* the events the last StateManager operation emitted, in order
    emitted,
    \* the last operation on the StateManager or on an object of the heap
    lastOp,
    \* how many operations of each kind have run
    ops,
    \* what a reader of the StateManager finds: the value getState() returns
    \* when called now, and the states the history entries hold; whether the
    \* last operation threw; what getState() returned before it; the to of the
    \* last statusChanged event
    observed

stateVars ==
    << heap, state, history, debugMode, now, emitted, lastOp, ops, observed >>

VARIABLES
    \* EventBus.events, and the number of insertions into it so far
    events, stamps,
    \* the callbacks invoked during the last operation on the EventBus or the
    \* StateManager, in order, each with the event and the data it was given
    delivered,
    \* the last call of a method of the EventBus, and how many calls of each
    \* kind have been made
    busOp, busOps

busVars == << events, stamps, delivered, busOp, busOps >>

VARIABLES
    \* the ApiService of the page with what it owns: its fields, the
    \* ApplicationState as it reads and writes it, the StatusPollers it has
    \* made, its timers and intervals, and its calls of the API not yet settled
    service

serviceVars == << service >>

vars == << pollerVars, stateVars, busVars, serviceVars >>

Min(a, b) == IF a <= b THEN a ELSE b

\* sequencing of statements: F applied to the value of the one element of S
Then(S, F(_)) == CHOOSE r \in {F(v) : v \in S} : TRUE

(***************************************************************************)
(* The poller and its host as one record, so that a method is an operator  *)
(* from record to record and a handler composes the methods it calls.      *)
(* exc: an exception is propagating; ret: poll() has returned early;       *)
(* late: the response being handled belongs to a request that was in       *)
(* flight when stop() ran; former: it belongs to a request of a session    *)
(* before the current one.                                                 *)
(***************************************************************************)
Cur ==
    [ callback |-> callback, options |-> options, isPolling |-> isPolling, attempts |-> attempts,
      currentInterval |-> currentInterval, timeoutId |-> timeoutId,
      lastStatus |-> lastStatus, consecutiveErrors |-> consecutiveErrors,
      stats |-> stats, approvalStateLocked |-> approvalStateLocked,
      timers |-> timers, nextTimerId |-> nextTimerId, inflight |-> inflight,
      log |-> log, exc |-> FALSE, ret |-> FALSE, late |-> FALSE,
      former |-> FALSE, responseTime |-> 0 ]

Apply(w) ==
    /\ options' = w.options
    /\ UNCHANGED << transport, callback >>
    /\ isPolling' = w.isPolling
    /\ attempts' = w.attempts
    /\ currentInterval' = w.currentInterval
    /\ timeoutId' = w.timeoutId
    /\ lastStatus' = w.lastStatus
    /\ consecutiveErrors' = w.consecutiveErrors
    /\ stats' = w.stats
    /\ approvalStateLocked' = w.approvalStateLocked
    /\ timers' = w.timers
    /\ nextTimerId' = w.nextTimerId
    /\ inflight' = w.inflight
    /\ log' = w.log
    /\ UNCHANGED << stateVars, busVars, serviceVars >>

\* clearTimeout(id): a timer that has fired or was cleared is not affected
clearTimeout(pending, id) == {t \in pending : t.id # id}

\* stop(): nothing when not polling; else clears the flag and the timer that
\* timeoutId names, and logs the statistics. A request in flight is not
\* aborted; the observer marks it as overtaken by this stop().
stop(w) ==
    IF ~w.isPolling
    THEN w
    ELSE [w EXCEPT !.isPolling = FALSE,
                   !.timers = IF w.timeoutId # NULL
                              THEN clearTimeout(w.timers, w.timeoutId) ELSE @,
                   !.timeoutId = NULL,
                   !.inflight = {[r EXCEPT !.stopped = TRUE] : r \in @},
                   !.log.statsLines = @ + 1]

\* poll() whose budget test reads attempts > maxAttempts
pollOffByOne(w) ==
    IF ~w.isPolling \/ w.attempts > w.options.maxAttempts
    THEN stop(w)
    ELSE IF w.approvalStateLocked
    THEN stop([w EXCEPT !.log.lockStops = @ + 1])
    ELSE [w EXCEPT !.stats.totalRequests = @ + 1,
                   !.inflight = @ \cup {[call |-> w.log.calls + 1, stopped |-> FALSE,
                                         session |-> w.log.sessions]},
                   !.log.calls = @ + 1]

\* poll(), up to the await of api.getStatus
poll(w) ==
    IF ~w.isPolling \/ w.attempts >= w.options.maxAttempts
    THEN stop(w)
    ELSE IF w.approvalStateLocked
    THEN stop([w EXCEPT !.log.lockStops = @ + 1])
    ELSE [w EXCEPT !.stats.totalRequests = @ + 1,
                   !.inflight = @ \cup {[call |-> w.log.calls + 1, stopped |-> FALSE,
                                         session |-> w.log.sessions]},
                   !.log.calls = @ + 1]

\* start() without its test of isPolling
startUnguarded(w) ==
    poll([w EXCEPT !.isPolling = TRUE,
                   !.attempts = 0,
                   !.consecutiveErrors = 0,
                   !.currentInterval = w.options.interval,
                   !.log.sessions = @ + 1,
                   !.log.failedInARow = 0,
                   !.log.optionsChanged = FALSE])

\* start(): log.sessions counts the times stats.startTime is set
start(w) ==
    IF w.isPolling
    THEN w
    ELSE poll([w EXCEPT !.isPolling = TRUE,
                        !.attempts = 0,
                        !.consecutiveErrors = 0,
                        !.currentInterval = w.options.interval,
                        !.log.sessions = @ + 1,
                        !.log.failedInARow = 0,
                        !.log.optionsChanged = FALSE])

\* a stop() called from outside the poller's own code
externalStop(w) ==
    IF w.isPolling THEN stop([w EXCEPT !.log.externalStops = @ + 1]) ELSE w

\* this.onUpdate(payload); a callback that calls start() does so until the
\* instance has opened MaxSessions sessions
onUpdate(w, payload) ==
    LET seen == [w EXCEPT !.log.updates = @ + 1,
                          !.log.failedUpdates = @ + (IF payload.pollingFailed THEN 1 ELSE 0),
                          !.log.lateUpdates = @ + (IF w.late THEN 1 ELSE 0),
                          !.log.failedBefore = IF payload.pollingFailed
                                               THEN w.log.failedInARow ELSE @,
                          !.log.lastUpdate = payload]
    IN  CASE w.callback = "return" -> seen
          [] w.callback = "throw"  -> [seen EXCEPT !.exc = TRUE, !.log.cbThrew = TRUE]
          [] w.callback = "stop"   -> externalStop(seen)
          [] w.callback = "start"  ->
                IF seen.log.sessions < MaxSessions THEN start(seen) ELSE seen

\* the payload the poller synthesises at the error ceiling
PollingFailedPayload == [success |-> FALSE, status |-> "none", pollingFailed |-> TRUE]

\* a transport result forwarded to onUpdate
ResultPayload(resp) == [success |-> TRUE, status |-> resp.status, pollingFailed |-> FALSE]

\* handlePollingError(error)
handlePollingError(w) ==
    LET counted == [w EXCEPT !.stats.failedRequests = @ + 1,
                             !.consecutiveErrors = @ + 1]
    IN  IF counted.consecutiveErrors >= maxConsecutiveErrors
        THEN Then({stop(counted)}, LAMBDA stopped :
                  onUpdate(stopped, PollingFailedPayload))
        ELSE [counted EXCEPT !.currentInterval =
                 Min(counted.currentInterval * counted.options.backoffMultiplier,
                     counted.options.maxInterval)]

\* adjustPollingInterval(status)
adjustPollingInterval(w, status) ==
    IF ~w.options.adaptivePolling
    THEN w
    ELSE IF status \in DOMAIN w.options.statusIntervals
    THEN [w EXCEPT !.currentInterval = w.options.statusIntervals[status]]
    ELSE [w EXCEPT !.currentInterval = w.options.interval]

\* shouldStopPolling(status)
shouldStopPolling(status) == status \in finalStatuses

RECURSIVE gcd(_, _)
gcd(a, b) == IF b = 0 THEN a ELSE gcd(b, a % b)

\* the fraction num/den in lowest terms
Fraction(num, den) ==
    LET d == gcd(num, den) IN [num |-> num \div d, den |-> den \div d]

\* ((averageResponseTime * successfulRequests) + responseTime)
\*     / (successfulRequests + 1)
average(avg, n, responseTime) ==
    Fraction(avg.num * n + responseTime * avg.den, avg.den * (n + 1))

\* the statements between the await and the test of status.success
updateAverage(w) ==
    [w EXCEPT !.stats.averageResponseTime =
                 average(@, w.stats.successfulRequests, w.responseTime)]

\* the try block with consecutiveErrors reset only after onUpdate returned
pollTryResetAfterUpdate(w, resp) ==
    IF resp.kind = "reject"
    THEN [w EXCEPT !.exc = TRUE]
    ELSE IF resp.kind = "ok"
    THEN LET counted == [updateAverage(w) EXCEPT !.stats.successfulRequests = @ + 1]
         IN  Then({onUpdate(counted, ResultPayload(resp))}, LAMBDA told :
                IF told.exc
                THEN told
                ELSE IF shouldStopPolling(resp.status)
                THEN [stop(told) EXCEPT !.ret = TRUE, !.consecutiveErrors = 0]
                ELSE [adjustPollingInterval(told, resp.status)
                         EXCEPT !.lastStatus = resp.status,
                                !.consecutiveErrors = 0])
    ELSE handlePollingError(updateAverage(w))

\* the try block of poll(), from the settled await on
pollTry(w, resp) ==
    IF resp.kind = "reject"
    THEN [w EXCEPT !.exc = TRUE]
    ELSE IF resp.kind = "ok"
    THEN LET counted == [updateAverage(w) EXCEPT !.stats.successfulRequests = @ + 1,
                                                 !.consecutiveErrors = 0]
         IN  Then({onUpdate(counted, ResultPayload(resp))}, LAMBDA told :
                IF told.exc
                THEN told
                ELSE IF shouldStopPolling(resp.status)
                THEN [stop(told) EXCEPT !.ret = TRUE]
                ELSE [adjustPollingInterval(told, resp.status)
                         EXCEPT !.lastStatus = resp.status])
    ELSE handlePollingError(updateAverage(w))

\* the catch block of poll()
pollCatch(w) ==
    IF w.exc THEN handlePollingError([w EXCEPT !.exc = FALSE]) ELSE w

\* this.timeoutId = setTimeout(() => this.poll(), this.currentInterval)
schedule(w) ==
    [w EXCEPT !.timeoutId = w.nextTimerId,
              !.timers = @ \cup {[id |-> w.nextTimerId, delay |-> w.currentInterval]},
              !.nextTimerId = @ + 1]

\* poll() after the try/catch: attempts++ and the next cycle
pollTail(w) ==
    IF w.exc \/ w.ret
    THEN w
    ELSE LET counted == [w EXCEPT !.attempts = @ + 1]
         IN  IF counted.isPolling THEN schedule(counted) ELSE counted

\* what the observer notes of a settled getStatus call
\* allFailed, allExecuting: every call so far failed, reported executing;
\* cleanRun: every call so far succeeded with a non-final status;
\* finalAt: the number of the call that first reported a final status, when
\* every call before it succeeded with a non-final status;
\* failedInARow: how many getStatus calls of the current session have failed
\* since its last success; failedBefore: what failedInARow was when the
\* pollingFailed payload was last delivered
noteResponse(w, resp) ==
    LET ok == resp.kind = "ok"
        final == ok /\ resp.status \in finalStatuses
        n == w.log.calls - Cardinality(w.inflight)
    IN  [w EXCEPT !.log.allFailed = @ /\ ~ok,
                  !.log.allExecuting = @ /\ ok /\ resp.status = "executing",
                  !.log.cleanRun = @ /\ ok /\ ~final,
                  !.log.finalAt = IF w.log.cleanRun /\ final THEN n ELSE @,
                  !.log.failedInARow = IF w.former THEN @ ELSE IF ok THEN 0 ELSE @ + 1]

\* poll() from the point where `await this.api.getStatus(...)` settles as resp
pollResume(w, resp) ==
    Then({noteResponse(w, resp)}, LAMBDA settled :
        Then({pollTry(settled, resp)}, LAMBDA tried :
            Then({pollCatch(tried)}, LAMBDA caught : pollTail(caught))))

\* updateOptions(newOptions): { ...this.options, ...newOptions }
updateOptions(w, new) ==
    [w EXCEPT !.options = [k \in DOMAIN w.options |->
                              IF k \in DOMAIN new THEN new[k] ELSE w.options[k]],
              !.log.optionUpdates = @ + 1,
              !.log.optionsChanged = TRUE]

(***************************************************************************)
(* The poller as constructed.                                              *)
(***************************************************************************)
InitLog ==
    [ calls |-> 0, sessions |-> 0, externalStops |-> 0, lockStops |-> 0,
      optionUpdates |-> 0, updates |-> 0, failedUpdates |-> 0,
      lateUpdates |-> 0, lastUpdate |-> [success |-> FALSE, status |-> "none",
                                         pollingFailed |-> FALSE],
      cbThrew |-> FALSE, allFailed |-> TRUE, allExecuting |-> TRUE,
      cleanRun |-> TRUE, finalAt |-> 0, lockChanges |-> 0,
      optionsChanged |-> FALSE, statsLines |-> 0, failedInARow |-> 0,
      failedBefore |-> 0 ]

PollerInit ==
    /\ \E c \in Constructions :
          options = c.options /\ transport = c.transport /\ callback = c.callback
    /\ isPolling = FALSE
    /\ attempts = 0
    /\ currentInterval = options.interval
    /\ timeoutId = NULL
    /\ lastStatus = "none"
    /\ consecutiveErrors = 0
    /\ stats = [totalRequests |-> 0, successfulRequests |-> 0, failedRequests |-> 0,
                averageResponseTime |-> [num |-> 0, den |-> 1]]
    /\ approvalStateLocked = FALSE
    /\ timers = {}
    /\ nextTimerId = 1
    /\ inflight = {}
    /\ log = InitLog

(***************************************************************************)
(* The operations on the poller and the events of its host.                *)
(***************************************************************************)
\* start() called by the owner of the poller
CanRestart == log.sessions < MaxSessions /\ log.calls <= RestartWindow

Start ==
    /\ log.sessions = 0 \/ CanRestart
    /\ \E w \in {start(Cur)} : Apply(w)

\* stop() called by the owner of the poller
Stop == \E w \in {externalStop(Cur)} : Apply(w)

\* a pending timer fires: () => this.poll()
TimerFires ==
    \E t \in timers :
        \E w \in {poll([Cur EXCEPT !.timers = @ \ {t}])} : Apply(w)

\* a getStatus promise settles and the suspended poll() resumes
Settles ==
    \E r \in inflight, resp \in Replies(transport) :
      \E rt \in ResponseTimes(resp) :
        \E w \in {pollResume([Cur EXCEPT !.inflight = @ \ {r}, !.late = r.stopped,
                                          !.former = r.session # log.sessions,
                                          !.responseTime = rt],
                               resp)} : Apply(w)

\* updateOptions(partial) called by the owner of the poller
UpdateOptions ==
    /\ log.optionUpdates < MaxOptionUpdates
    /\ log.calls <= RestartWindow
    /\ \E new \in OptionUpdates : \E w \in {updateOptions(Cur, new)} : Apply(w)

\* the service takes or releases the approval lock
SetApprovalLock ==
    /\ log.lockChanges < MaxLockChanges
    /\ approvalStateLocked' = ~approvalStateLocked
    /\ log' = [log EXCEPT !.lockChanges = @ + 1]
    /\ UNCHANGED << transport, callback, options, isPolling, attempts,
                    currentInterval, timeoutId, lastStatus, consecutiveErrors,
                    stats, timers, nextTimerId, inflight >>
    /\ UNCHANGED << stateVars, busVars, serviceVars >>

PollerNext ==
    \/ Start
    \/ Stop
    \/ TimerFires
    \/ Settles
    \/ UpdateOptions
    \/ SetApprovalLock

\* the owner starts the poller once and leaves its options as constructed;
\* the callback may still start it again
StartOnce == log.sessions = 0 /\ Start

PollerFairNext ==
    \/ StartOnce
    \/ Stop
    \/ TimerFires
    \/ Settles
    \/ SetApprovalLock

(***************************************************************************)
(* The EventBus. this.events maps an event name to a Set of callbacks; a   *)
(* Set keeps its elements in insertion order, which the model records with *)
(* a stamp per insertion, and a Set made anew for a name is another Set    *)
(* than the one deleted before, which the model records with an id. The    *)
(* bus is a record from which a method makes another: calls lists the      *)
(* callbacks invoked since the operation began, threw tells that an        *)
(* exception has reached the caller of the method.                         *)
(***************************************************************************)
\* the event names the listeners of the model subscribe to
EventNames == { "stateChanged", "stateRolledBack" }

\* the functions the modules of the page subscribe with, and what the body of
\* each does when it is invoked
Functions == { "render", "audit", "faulty", "detach" }

\* the functions a module hands to once: "echo" emits stateChanged itself
OnceCallbacks == { "render", "faulty", "echo" }

Body(f) ==
    CASE f = "faulty" -> [does |-> "throw", event |-> "", target |-> ""]
      [] f = "detach" -> [does |-> "off", event |-> "stateChanged", target |-> "render"]
      [] f = "echo" -> [does |-> "emit", event |-> "stateChanged", target |-> ""]
      [] f = "advance" -> [does |-> "setState", event |-> "", target |-> "planning"]
      [] OTHER -> [does |-> "return", event |-> "", target |-> ""]

\* a function of a module: once is 0
Fn(name) == [name |-> name, once |-> 0, event |-> ""]

\* the arrow function once builds around callback: (data) => { callback(data);
\* unsubscribe(); }, a new function at every call of once
Wrapper(name, id, e) == [name |-> name, once |-> id, event |-> e]

NoFn == Fn("")

\* this.events of a new EventBus: no event name has a Set
NoEvents == [n \in {} |-> << >>]

\* the StateManager that the callbacks of the page reach through the module
\* they import it from, as the bus carries it into a callback: none here
NoPage ==
    [ heap |-> << >>, state |-> NULL, history |-> << >>, debugMode |-> FALSE,
      now |-> 0, emitted |-> << >>, threw |-> FALSE ]

\* a new EventBus
NewBus ==
    [ events |-> NoEvents, stamps |-> 0, calls |-> << >>, threw |-> FALSE, depth |-> 0,
      page |-> NoPage ]

CurBus ==
    [ events |-> events, stamps |-> stamps, calls |-> << >>, threw |-> FALSE, depth |-> 0,
      page |-> NoPage ]

\* callbacks.has(f)
Has(callbacks, f) == \E i \in 1..Len(callbacks.fns) : callbacks.fns[i].fn = f

\* on that keeps the callbacks of an event in an array: push(callback)
onAppend(b, e, f) ==
    LET made == IF e \in DOMAIN b.events
                THEN b
                ELSE [b EXCEPT !.stamps = @ + 1,
                               !.events = [n \in DOMAIN @ \cup {e} |->
                                              IF n = e THEN [id |-> b.stamps + 1, fns |-> << >>]
                                                       ELSE @[n]]]
    IN  [made EXCEPT !.stamps = @ + 1,
                     !.events[e].fns = Append(@, [fn |-> f, stamp |-> made.stamps + 1])]

\* on(eventName, callback)
on(b, e, f) ==
    LET made == IF e \in DOMAIN b.events
                THEN b
                ELSE [b EXCEPT !.stamps = @ + 1,
                               !.events = [n \in DOMAIN @ \cup {e} |->
                                              IF n = e THEN [id |-> b.stamps + 1, fns |-> << >>]
                                                       ELSE @[n]]]
    IN  IF Has(made.events[e], f)
        THEN made
        ELSE [made EXCEPT !.stamps = @ + 1,
                          !.events[e].fns = Append(@, [fn |-> f, stamp |-> made.stamps + 1])]

\* off without the clean up of an empty Set
offKeep(b, e, f) ==
    IF e \notin DOMAIN b.events
    THEN b
    ELSE [b EXCEPT !.events[e].fns = SelectSeq(@, LAMBDA en : en.fn # f)]

\* off(eventName, callback)
off(b, e, f) ==
    IF e \notin DOMAIN b.events
    THEN b
    ELSE LET left == SelectSeq(b.events[e].fns, LAMBDA en : en.fn # f)
         IN  IF left = << >>
             THEN [b EXCEPT !.events = [n \in DOMAIN @ \ {e} |-> @[n]]]
             ELSE [b EXCEPT !.events[e].fns = left]

RECURSIVE emit(_, _, _)
RECURSIVE handlerSetState(_, _)

\* the body of the function of a module runs: the bus after it, and whether
\* it threw
run(b, name, data) ==
    CASE Body(name).does = "throw" -> [bus |-> b, threw |-> TRUE]
      [] Body(name).does = "off" ->
            [bus |-> off(b, Body(name).event, Fn(Body(name).target)), threw |-> FALSE]
      [] Body(name).does = "emit" ->
            [bus |-> emit(b, Body(name).event, data), threw |-> FALSE]
      [] Body(name).does = "setState" ->
            [bus |-> handlerSetState(b, name), threw |-> FALSE]
      [] OTHER -> [bus |-> b, threw |-> FALSE]

\* callback(data): the bus after the call, and whether the call threw. A call
\* that would nest deeper than the stack allows throws a RangeError before the
\* function runs. The function once built calls callback and then its
\* unsubscribe, which an exception of callback skips.
invoke(b, f, e, data) ==
    IF b.depth >= MaxDepth
    THEN [bus |-> b, threw |-> TRUE]
    ELSE LET called == [b EXCEPT !.calls = Append(@, [fn |-> f, event |-> e, data |-> data]),
                                 !.depth = @ + 1]
         IN  Then({run(called, f.name, data)}, LAMBDA r :
                 [bus |-> [(IF f.once = 0 \/ r.threw THEN r.bus ELSE off(r.bus, f.event, f))
                             EXCEPT !.depth = b.depth],
                  threw |-> r.threw])

\* the elements of the Set with the given id that forEach has yet to visit,
\* having visited those up to the stamp after: a Set that off has deleted
\* from this.events is empty
Unvisited(b, e, id, after) ==
    IF e \in DOMAIN b.events /\ b.events[e].id = id
    THEN SelectSeq(b.events[e].fns, LAMBDA en : en.stamp > after)
    ELSE << >>

\* callbacks.forEach without the try and catch around the call
RECURSIVE forEachUnguarded(_, _, _, _, _)
forEachUnguarded(b, e, id, after, data) ==
    LET rest == Unvisited(b, e, id, after)
    IN  IF rest = << >>
        THEN b
        ELSE Then({invoke(b, Head(rest).fn, e, data)}, LAMBDA r :
                 IF r.threw
                 THEN [r.bus EXCEPT !.threw = TRUE]
                 ELSE forEachUnguarded(r.bus, e, id, Head(rest).stamp, data))

\* emit without the try and catch around the call of a callback
emitUnguarded(b, e, data) ==
    IF e \in DOMAIN b.events
    THEN forEachUnguarded(b, e, b.events[e].id, 0, data)
    ELSE b

\* callbacks.forEach over the callbacks the Set held when emit was called
RECURSIVE forEachSnapshot(_, _, _, _)
forEachSnapshot(b, e, rest, data) ==
    IF rest = << >>
    THEN b
    ELSE Then({invoke(b, Head(rest).fn, e, data)}, LAMBDA r :
             forEachSnapshot(r.bus, e, Tail(rest), data))

\* emit that hands the event to every callback registered when it is called
emitSnapshot(b, e, data) ==
    IF e \in DOMAIN b.events
    THEN forEachSnapshot(b, e, b.events[e].fns, data)
    ELSE b

\* callbacks.forEach(callback => { try { callback(data) } catch (error) {...} })
RECURSIVE forEach(_, _, _, _, _)
forEach(b, e, id, after, data) ==
    LET rest == Unvisited(b, e, id, after)
    IN  IF rest = << >>
        THEN b
        ELSE Then({invoke(b, Head(rest).fn, e, data)}, LAMBDA r :
                 \* an exception of the callback is caught and logged
                 forEach(r.bus, e, id, Head(rest).stamp, data))

\* once(eventName, callback)
once(b, e, name) ==
    on([b EXCEPT !.stamps = @ + 1], e, Wrapper(name, b.stamps + 1, e))

\* emit(eventName, data)
emit(b, e, data) ==
    IF e \in DOMAIN b.events
    THEN forEach(b, e, b.events[e].id, 0, data)
    ELSE b

\* clear()
clear(b) == [b EXCEPT !.events = NoEvents]

\* getEventNames()
getEventNames(b) == DOMAIN b.events

\* getListenerCount(eventName)
getListenerCount(b, e) == IF e \in DOMAIN b.events THEN Len(b.events[e].fns) ELSE 0

(***************************************************************************)
(* The StateManager of frontend/src/utils/state.js.                        *)
(* A JavaScript value is a primitive, a timestamp string, or the address   *)
(* of an object of the heap; an object maps its keys to values. An object  *)
(* written out by value (an object literal, or a value as a reader sees    *)
(* it) is a jsObject.                                                      *)
(***************************************************************************)
jsPrim(s) == [k |-> "prim", p |-> s, n |-> 0, o |-> <<>>]
jsTime(t) == [k |-> "time", p |-> "", n |-> t, o |-> <<>>]
jsRef(a) == [k |-> "ref", p |-> "", n |-> a, o |-> <<>>]
jsObject(obj) == [k |-> "obj", p |-> "", n |-> 0, o |-> obj]
jsBool(b) == jsPrim(IF b THEN "true" ELSE "false")
jsNull == jsPrim("null")
jsUndefined == jsPrim("undefined")
IsRef(v) == v.k = "ref"
IsObject(v) == v.k = "obj"

\* obj[key], undefined for a key the object does not have
Get(obj, key) == IF key \in DOMAIN obj THEN obj[key] ELSE jsUndefined

\* the keys of the application state that the model carries, in the order
\* Object.keys lists them: the index of an array that was spread into the
\* state, then the keys in the order getInitialState() writes them, then a
\* key that an update added
KeyOrder ==
    << "0", "status", "threadId", "plan", "progress", "currentTaskId", "error",
       "preferences", "updatedAt", "draft" >>

Position(seq, e) == CHOOSE i \in 1..Len(seq) : seq[i] = e

\* the preferences block of getInitialState()
InitialPreferences ==
    [ pollingInterval |-> jsPrim("2000"), debugMode |-> jsBool(FALSE) ]

\* an object of the heap; origin tells who can reach it: "internal" and
\* "nested" only through the manager or the object that holds them, the others
\* are in the hands of a caller or a listener ("passed": a nested object that
\* a caller has handed to setState inside an update)
Cell(obj, origin) == [obj |-> obj, origin |-> origin]

\* the manager, its EventBus and the heap as one record; a new object gets the
\* next address, so the object an operator has just made is at Len(heap);
\* threw is set when the operation ends in an exception that reaches its caller
CurState ==
    [ heap |-> heap, state |-> state, history |-> history,
      debugMode |-> debugMode, now |-> now, emitted |-> emitted,
      threw |-> FALSE, bus |-> CurBus ]

alloc(m, obj, origin) == [m EXCEPT !.heap = Append(@, Cell(obj, origin))]

\* getInitialState()
getInitialState(m) ==
    Then({alloc(m, InitialPreferences, "nested")}, LAMBDA made :
        alloc(made, [ status |-> jsPrim("idle"), threadId |-> jsNull, plan |-> jsNull,
                      progress |-> jsPrim("0"), currentTaskId |-> jsNull,
                      error |-> jsNull,
                      preferences |-> jsRef(Len(made.heap)),
                      updatedAt |-> jsTime(m.now) ], "internal"))

\* JSON.stringify of an object leaves out the keys whose value is undefined
jsonObject(obj) ==
    [key \in {key \in DOMAIN obj : obj[key] # jsUndefined} |-> obj[key]]

\* the keys of obj that hold an object, in key order
RefKeys(obj) ==
    SelectSeq(KeyOrder, LAMBDA key : key \in DOMAIN obj /\ IsRef(obj[key]))

\* JSON.parse(JSON.stringify(the object at r)): new objects all the way down
jsonCopy(m, r, origin) ==
    LET obj == jsonObject(m.heap[r].obj)
        rk == RefKeys(obj)
        base == Len(m.heap)
        nested == [i \in 1..Len(rk) |->
                      Cell(jsonObject(m.heap[obj[rk[i]].n].obj), "nested")]
        top == [key \in DOMAIN obj |->
                   IF IsRef(obj[key]) THEN jsRef(base + Position(rk, key))
                                      ELSE obj[key]]
    IN  [m EXCEPT !.heap = Append(@ \o nested, Cell(top, origin))]

\* getState() that copies the top level only: { ...this.state }
getStateShallow(m) == alloc(m, m.heap[m.state].obj, "getState")

\* getState()
getState(m) == jsonCopy(m, m.state, "getState")

\* an event as a listener on every event name receives it: its name, with
\* the key or status the name is built from, the to of statusChanged or the
\* steps of stateRolledBack as arg, and the from and the source of its payload
Event(name, arg, from, source) ==
    [name |-> name, arg |-> arg, from |-> from, source |-> source]

\* the bus of the manager m as its callbacks see it: with m in their reach
Carrying(m) ==
    [m.bus EXCEPT !.page = [ heap |-> m.heap, state |-> m.state, history |-> m.history,
                             debugMode |-> m.debugMode, now |-> m.now,
                             emitted |-> m.emitted, threw |-> m.threw ]]

\* the manager as the callbacks of the bus b have left it
Reached(b) ==
    [ heap |-> b.page.heap, state |-> b.page.state, history |-> b.page.history,
      debugMode |-> b.page.debugMode, now |-> b.page.now, emitted |-> b.page.emitted,
      threw |-> b.page.threw, bus |-> [b EXCEPT !.page = NoPage] ]

\* this.eventBus.emit(event.name, payload): emitted lists the events handed to
\* the bus; an exception that came out of an earlier statement has ended the
\* operation
publish(m, event) ==
    IF m.threw
    THEN m
    ELSE Then({emit(Carrying([m EXCEPT !.emitted = Append(@, event)]), event.name, event)},
              LAMBDA b : [Reached(b) EXCEPT !.bus.threw = FALSE, !.threw = b.threw])

\* the events published one after the other
RECURSIVE publishAll(_, _)
publishAll(m, list) ==
    IF list = << >> THEN m ELSE publishAll(publish(m, Head(list)), Tail(list))

\* addToHistory that drops the entry it has just pushed when the history is
\* full: pop() for shift()
addToHistoryPop(m, r, source) ==
    Then({jsonCopy(m, r, "internal")}, LAMBDA copied :
        LET pushed == Append(copied.history,
                             [ state |-> Len(copied.heap), timestamp |-> m.now,
                               source |-> source ])
        IN  [copied EXCEPT !.history = IF Len(pushed) > maxHistorySize
                                       THEN SubSeq(pushed, 1, Len(pushed) - 1)
                                       ELSE pushed])

\* addToHistory that pushes the state object itself, not a copy of it
addToHistoryShared(m, r, source) ==
    LET pushed == Append(m.history,
                         [ state |-> r, timestamp |-> m.now, source |-> source ])
    IN  [m EXCEPT !.history = IF Len(pushed) > maxHistorySize
                              THEN Tail(pushed) ELSE pushed]

\* addToHistory(state, source)
addToHistory(m, r, source) ==
    Then({jsonCopy(m, r, "internal")}, LAMBDA copied :
        LET pushed == Append(copied.history,
                             [ state |-> Len(copied.heap), timestamp |-> m.now,
                               source |-> source ])
        IN  [copied EXCEPT !.history = IF Len(pushed) > maxHistorySize
                                       THEN Tail(pushed) ELSE pushed])

\* emitStateChanges that emits the status events before the events of the keys
emitStateChangesStatusFirst(m, prev, new, source) ==
    LET po == m.heap[prev].obj
        no == m.heap[new].obj
        changed == SelectSeq(KeyOrder, LAMBDA key :
                       key \in DOMAIN no /\ Get(po, key) # no[key])
        keyEvents == [i \in 1..Len(changed) |->
                         Event("state:<key>Changed", changed[i], "", source)]
        statusEvents ==
            IF Get(po, "status") # Get(no, "status")
            THEN << Event("statusChanged", Get(no, "status").p, Get(po, "status").p,
                          source),
                    Event("status:<status>", Get(no, "status").p, "", source) >>
            ELSE << >>
    IN  publishAll(m, << Event("stateChanged", "", "", source) >> \o statusEvents
                          \o keyEvents)

\* emitStateChanges that takes the from of statusChanged from the new state
emitStateChangesFromNew(m, prev, new, source) ==
    LET po == m.heap[prev].obj
        no == m.heap[new].obj
        changed == SelectSeq(KeyOrder, LAMBDA key :
                       key \in DOMAIN no /\ Get(po, key) # no[key])
        keyEvents == [i \in 1..Len(changed) |->
                         Event("state:<key>Changed", changed[i], "", source)]
        statusEvents ==
            IF Get(po, "status") # Get(no, "status")
            THEN << Event("statusChanged", Get(no, "status").p, Get(no, "status").p,
                          source),
                    Event("status:<status>", Get(no, "status").p, "", source) >>
            ELSE << >>
    IN  publishAll(m, << Event("stateChanged", "", "", source) >> \o keyEvents
                          \o statusEvents)

\* emitStateChanges(previousState, newState, source)
emitStateChanges(m, prev, new, source) ==
    LET po == m.heap[prev].obj
        no == m.heap[new].obj
        changed == SelectSeq(KeyOrder, LAMBDA key :
                       key \in DOMAIN no /\ Get(po, key) # no[key])
        keyEvents == [i \in 1..Len(changed) |->
                         Event("state:<key>Changed", changed[i], "", source)]
        statusEvents ==
            IF Get(po, "status") # Get(no, "status")
            THEN << Event("statusChanged", Get(no, "status").p, Get(po, "status").p,
                          source),
                    Event("status:<status>", Get(no, "status").p, "", source) >>
            ELSE << >>
    IN  publishAll(m, << Event("stateChanged", "", "", source) >> \o keyEvents
                          \o statusEvents)

\* an object with the keys of both, a key of both taking the value of over
spread(under, over) ==
    [key \in DOMAIN under \cup DOMAIN over |->
        IF key \in DOMAIN over THEN over[key] ELSE under[key]]

\* the validStatusTransitions table of validateStateUpdate
validStatusTransitions ==
    [ idle |-> {"planning", "error"},
      planning |-> {"awaiting_approval", "executing", "error", "idle"},
      awaiting_approval |-> {"planning", "executing", "error"},
      executing |-> {"completed", "error", "awaiting_approval"},
      completed |-> {"idle"},
      error |-> {"idle", "planning"} ]

\* the status change from -> to is not in the table
OutOfTable(from, to) ==
    /\ to # from
    /\ to \notin (IF from \in DOMAIN validStatusTransitions
                  THEN validStatusTransitions[from] ELSE {})

\* validateStateUpdate that returns false for a transition it warns about
validateStateUpdateStrict(previous, new) ==
    LET warned == OutOfTable(Get(previous, "status").p, Get(new, "status").p)
    IN  [valid |-> ~warned, warned |-> warned]

\* validateStateUpdate(previousState, newState): what it returns, and whether
\* it logs the warning of an invalid status transition
validateStateUpdate(previous, new) ==
    LET warned == OutOfTable(Get(previous, "status").p, Get(new, "status").p)
    IN  [valid |-> TRUE, warned |-> warned]

\* the values a caller can pass as updates, by kind
ArgumentKinds ==
    { "null", "undefined", "number", "string", "boolean", "function", "array", "object" }

\* typeof updates
typeof(kind) == IF kind \in {"null", "array"} THEN "object" ELSE kind

\* the test setState opens with: typeof updates !== 'object' || updates === null
IsInvalidUpdates(kind) == typeof(kind) # "object" \/ kind = "null"

\* setState that merges an object of the update into the object the state
\* holds under the same key
setStateDeepMerge(m, kind, u, source) ==
    IF IsInvalidUpdates(kind)
    THEN m
    ELSE Then({addToHistory(m, m.state, source)}, LAMBDA saved :
        LET previous == saved.heap[saved.state].obj
            updates == saved.heap[u].obj
            both == SelectSeq(KeyOrder, LAMBDA key :
                        /\ key \in DOMAIN previous \cap DOMAIN updates
                        /\ IsRef(previous[key]) /\ IsRef(updates[key]))
            base == Len(saved.heap)
            nested == [i \in 1..Len(both) |->
                          Cell(spread(saved.heap[previous[both[i]].n].obj,
                                      saved.heap[updates[both[i]].n].obj), "nested")]
            merged == [key \in DOMAIN spread(previous, updates) \cup {"updatedAt"} |->
                          IF key = "updatedAt" THEN jsTime(saved.now)
                          ELSE IF \E i \in 1..Len(both) : both[i] = key
                          THEN jsRef(base + Position(both, key))
                          ELSE spread(previous, updates)[key]]
        IN  Then({alloc(alloc([saved EXCEPT !.heap = @ \o nested],
                              previous, "previousState"), merged, "newState")},
                 LAMBDA made :
                    IF ~validateStateUpdate(previous, merged).valid
                    THEN made
                    ELSE emitStateChanges([made EXCEPT !.state = Len(made.heap)],
                                          Len(made.heap) - 1, Len(made.heap), source)))

\* setState(updates, source); kind is the kind of updates and u its address,
\* NULL for a value that is not on the heap
setState(m, kind, u, source) ==
    IF IsInvalidUpdates(kind)
    THEN m
    ELSE Then({addToHistory(m, m.state, source)}, LAMBDA saved :
        LET previous == saved.heap[saved.state].obj
            updates == saved.heap[u].obj
            merged == [key \in DOMAIN spread(previous, updates) \cup {"updatedAt"} |->
                          IF key = "updatedAt" THEN jsTime(saved.now)
                          ELSE spread(previous, updates)[key]]
        IN  Then({alloc(alloc(saved, previous, "previousState"), merged, "newState")},
                 LAMBDA made :
                    IF ~validateStateUpdate(previous, merged).valid
                    THEN made
                    ELSE emitStateChanges([made EXCEPT !.state = Len(made.heap)],
                                          Len(made.heap) - 1, Len(made.heap), source)))

\* reset()
reset(m) ==
    Then({getInitialState(m)}, LAMBDA fresh :
        [setState(fresh, "object", Len(fresh.heap), "reset") EXCEPT !.history = << >>])

\* rollback that restores the last entry whatever steps is
rollbackLastEntry(m, steps) ==
    IF Len(m.history) < steps
    THEN m
    ELSE IF Len(m.history) - steps + 1 \notin 1..Len(m.history)
    THEN [m EXCEPT !.threw = TRUE]
    ELSE Then({jsonCopy(m, m.history[Len(m.history)].state, "rolledBack")},
              LAMBDA restored :
                 publish([restored EXCEPT !.state = Len(restored.heap),
                                          !.history = SubSeq(@, 1, Len(@) - steps)],
                         Event("stateRolledBack", steps, "", "")))

\* rollback that announces the restored state as setState announces a new one
rollbackAnnounced(m, steps) ==
    IF Len(m.history) < steps
    THEN m
    ELSE IF Len(m.history) - steps + 1 \notin 1..Len(m.history)
    THEN [m EXCEPT !.threw = TRUE]
    ELSE Then({jsonCopy(m, m.history[Len(m.history) - steps + 1].state, "rolledBack")},
              LAMBDA restored :
                 publish(emitStateChanges([restored EXCEPT
                                              !.state = Len(restored.heap),
                                              !.history = SubSeq(@, 1, Len(@) - steps)],
                                          m.state, Len(restored.heap), "rollback"),
                         Event("stateRolledBack", steps, "", "")))

\* rollback(steps); the stateRolledBack event carries steps
rollback(m, steps) ==
    IF Len(m.history) < steps
    THEN m
    ELSE IF Len(m.history) - steps + 1 \notin 1..Len(m.history)
    THEN \* history[length - steps] is undefined: reading its state throws
         [m EXCEPT !.threw = TRUE]
    ELSE Then({jsonCopy(m, m.history[Len(m.history) - steps + 1].state, "rolledBack")},
              LAMBDA restored :
                 publish([restored EXCEPT !.state = Len(restored.heap),
                                          !.history = SubSeq(@, 1, Len(@) - steps)],
                         Event("stateRolledBack", steps, "", "")))

\* setDebugMode(enabled)
setDebugMode(m, enabled) ==
    LET prefs == Get(m.heap[m.state].obj, "preferences")
        old == IF IsRef(prefs) THEN m.heap[prefs.n].obj ELSE << >>
        flagged == [m EXCEPT !.debugMode = enabled]
    IN  Then({alloc(flagged, spread(old, [debugMode |-> jsBool(enabled)]), "nested")},
             LAMBDA made :
                Then({alloc(made, [preferences |-> jsRef(Len(made.heap))], "internal")},
                     LAMBDA built : setState(built, "object", Len(built.heap), "debugMode")))

(***************************************************************************)
(* The callers and listeners of the StateManager.                          *)
(***************************************************************************)
\* the partial updates callers write, nested objects as literals
UpdateTemplates ==
    { [ status |-> jsPrim("planning") ],
      [ status |-> jsPrim("executing"), plan |-> jsObject([steps |-> jsPrim("one")]) ],
      [ preferences |-> jsObject([debugMode |-> jsBool(TRUE)]) ],
      [ status |-> jsPrim("archived") ],
      [ currentTaskId |-> jsUndefined ],
      [ plan |-> jsNull, currentTaskId |-> jsPrim("task") ],
      [ draft |-> jsPrim("text") ] }

\* the caller evaluates the object literal of an update
makeUpdate(m, template) ==
    LET ok == SelectSeq(KeyOrder, LAMBDA key :
                  key \in DOMAIN template /\ IsObject(template[key]))
        base == Len(m.heap)
        nested == [i \in 1..Len(ok) |-> Cell(template[ok[i]].o, "passed")]
        top == [key \in DOMAIN template |->
                   IF IsObject(template[key]) THEN jsRef(base + Position(ok, key))
                                              ELSE template[key]]
    IN  [m EXCEPT !.heap = Append(@ \o nested, Cell(top, "update"))]

\* the objects the object at a holds are now objects passed to setState
markPassed(m, a) ==
    [m EXCEPT !.heap = [b \in DOMAIN @ |->
        IF \E key \in DOMAIN m.heap[a].obj : m.heap[a].obj[key] = jsRef(b)
        THEN [@[b] EXCEPT !.origin = "passed"] ELSE @[b]]]

\* obj with obj[key] = v
assign(obj, key, v) ==
    [q \in DOMAIN obj \cup {key} |-> IF q = key THEN v ELSE obj[q]]

\* the object at a is in the hands of a caller or a listener
External(a) ==
    heap[a].origin \in
        {"update", "array", "previousState", "newState", "rolledBack", "getState"}

\* the value at address a as a reader sees it, objects written out
View(h, a) ==
    [key \in DOMAIN h[a].obj |->
        IF IsRef(h[a].obj[key]) THEN jsObject(h[h[a].obj[key].n].obj)
                                ELSE h[a].obj[key]]

\* a callback of a module that moves the workflow on: () => { if
\* (stateManager.getState().status === target) stateManager.setState({status:
\* 'executing'}, 'handler') }, called by emit with the bus b
handlerSetState(b, name) ==
    Then({getState(Reached(b))}, LAMBDA read :
        IF View(read.heap, Len(read.heap))["status"] # jsPrim(Body(name).target)
        THEN Carrying(read)
        ELSE Then({makeUpdate(read, [status |-> jsPrim("executing")])}, LAMBDA made :
                 Carrying(setState(made, "object", Len(made.heap), "handler"))))

\* the to of the last statusChanged of the list, lastTo when there is none
LastTo(list, lastTo) ==
    LET at == {i \in 1..Len(list) : list[i].name = "statusChanged"}
    IN  IF at = {} THEN lastTo
        ELSE list[CHOOSE i \in at : \A j \in at : j <= i].arg

\* what a reader and the caller of the operation see once it is over: what
\* getState() returns and the states of the history entries, whether the
\* operation threw, what getState() returned before it (prior), and the to
\* of the last statusChanged so far
Observe(m, prior, lastTo) ==
    Then({getState(m)}, LAMBDA copied :
        [ returned |-> View(copied.heap, Len(copied.heap)),
          history |-> [i \in 1..Len(m.history) |-> View(m.heap, m.history[i].state)],
          threw |-> m.threw,
          prior |-> prior,
          lastTo |-> LastTo(m.emitted, lastTo) ])

\* an operation of a caller: arg is the address of its argument or the
\* number passed, kind the kind of value setState was given; a mutation goes
\* through an object of origin via
Op(op, arg, via, passed, nested) ==
    [ op |-> op, arg |-> arg, via |-> via, passed |-> passed, nested |-> nested,
      kind |-> "none" ]

OpSetState(arg, kind) ==
    [Op("setState", arg, "none", FALSE, FALSE) EXCEPT !.kind = kind]

\* the variables of the StateManager and of its bus after an operation
Applied(m, op) ==
    /\ heap' = m.heap
    /\ state' = m.state
    /\ history' = m.history
    /\ debugMode' = m.debugMode
    /\ now' = m.now
    /\ emitted' = m.emitted
    /\ lastOp' = op
    /\ observed' = Observe(m, observed.returned, observed.lastTo)
    /\ events' = m.bus.events
    /\ stamps' = m.bus.stamps
    /\ delivered' = m.bus.calls
    /\ UNCHANGED << pollerVars, serviceVars >>

ApplyState(m, op) == Applied(m, op) /\ UNCHANGED << busOp, busOps >>

Cleared == [CurState EXCEPT !.emitted = << >>]

\* a new StateManager
NewManager ==
    Then({getInitialState([ heap |-> << >>, state |-> NULL, history |-> << >>,
                            debugMode |-> FALSE, now |-> 0, emitted |-> << >>,
                            threw |-> FALSE, bus |-> NewBus ])},
         LAMBDA m : [m EXCEPT !.state = Len(m.heap)])

StateInit ==
    /\ \E m \in {NewManager} :
          /\ heap = m.heap
          /\ state = m.state
          /\ \E seen \in {Observe(m, << >>, "idle")} :
                observed = [seen EXCEPT !.prior = seen.returned]
    /\ history = << >>
    /\ debugMode = FALSE
    /\ now = 0
    /\ emitted = << >>
    /\ lastOp = Op("new", NULL, "none", FALSE, FALSE)
    /\ ops = [writes |-> 0, copies |-> 0, mutations |-> 0, ticks |-> 0, plain |-> TRUE]

\* ops counts the calls of the callers; plain holds while setState and
\* getState are the only operations that were called
CanWrite == ops.writes < MaxWrites
Wrote == ops' = [ops EXCEPT !.writes = @ + 1]
WroteOther == ops' = [ops EXCEPT !.writes = @ + 1, !.plain = FALSE]

\* setState(update) with an update the caller has just written
SetState ==
    /\ CanWrite /\ Wrote
    /\ \E template \in UpdateTemplates :
         \E m \in {makeUpdate(Cleared, template)} :
           \E r \in {setState(m, "object", Len(m.heap), "caller")} :
              ApplyState(r, OpSetState(Len(m.heap), "object"))

\* setState(copy) with an object that getState() returned
SetStateCopy ==
    /\ CanWrite /\ Wrote
    /\ \E a \in DOMAIN heap :
         /\ heap[a].origin = "getState"
         /\ \E r \in {setState(markPassed(Cleared, a), "object", a, "caller")} :
               ApplyState(r, OpSetState(a, "object"))

\* setState(value) with a value that is not an object
SetStateRejected ==
    /\ CanWrite /\ Wrote
    /\ \E kind \in ArgumentKinds \ {"array", "object"} :
         \E r \in {setState(Cleared, kind, NULL, "caller")} :
            ApplyState(r, OpSetState(NULL, kind))

\* the arrays callers pass, by index
ArrayTemplates == { [index \in {"0"} |-> jsPrim("item")] }

\* setState(array) with an array the caller has just written
SetStateArray ==
    /\ CanWrite /\ Wrote
    /\ \E template \in ArrayTemplates :
         \E m \in {alloc(Cleared, template, "array")} :
           \E r \in {setState(m, "array", Len(m.heap), "caller")} :
              ApplyState(r, OpSetState(Len(m.heap), "array"))

Reset ==
    /\ CanWrite /\ WroteOther
    /\ \E r \in {reset(Cleared)} : ApplyState(r, Op("reset", NULL, "none", FALSE, FALSE))

Rollback ==
    /\ CanWrite /\ WroteOther
    /\ \E steps \in -1..MaxSteps :
         \E r \in {rollback(Cleared, steps)} :
            ApplyState(r, Op("rollback", steps, "none", FALSE, FALSE))

SetDebugMode ==
    /\ CanWrite /\ WroteOther
    /\ \E enabled \in BOOLEAN :
         \E r \in {setDebugMode(Cleared, enabled)} :
            ApplyState(r, Op("setDebugMode", NULL, "none", FALSE, FALSE))

\* a caller calls getState() and keeps what it returns
GetState ==
    /\ ops.copies < MaxCopies
    /\ ops' = [ops EXCEPT !.copies = @ + 1]
    /\ \E r \in {getState(CurState)} :
          ApplyState(r, Op("getState", Len(r.heap), "none", FALSE, FALSE))

\* a caller or listener assigns to a key of an object it holds
MutateTop ==
    /\ ops.mutations < MaxMutations
    /\ ops' = [ops EXCEPT !.mutations = @ + 1, !.plain = FALSE]
    /\ \E a \in DOMAIN heap, key \in {"status"} :
         /\ External(a)
         /\ ApplyState([CurState EXCEPT !.heap[a].obj = assign(@, key, jsPrim("mutated"))],
                       Op("mutate", a, heap[a].origin, FALSE, FALSE))

\* a caller or listener assigns to a key of an object inside one it holds
MutateNested ==
    /\ ops.mutations < MaxMutations
    /\ ops' = [ops EXCEPT !.mutations = @ + 1, !.plain = FALSE]
    /\ \E a \in DOMAIN heap :
         /\ External(a)
         /\ \E key \in DOMAIN heap[a].obj :
              /\ IsRef(heap[a].obj[key])
              /\ \E inner \in DOMAIN heap[heap[a].obj[key].n].obj :
                   ApplyState([CurState EXCEPT !.heap[heap[a].obj[key].n].obj =
                                                  assign(@, inner, jsPrim("mutated"))],
                              Op("mutate", heap[a].obj[key].n, heap[a].origin,
                                 heap[heap[a].obj[key].n].origin = "passed", TRUE))

\* time passes
Tick ==
    /\ ops.ticks < MaxClock
    /\ ops' = [ops EXCEPT !.ticks = @ + 1]
    /\ ApplyState([CurState EXCEPT !.now = @ + 1], Op("tick", NULL, "none", FALSE, FALSE))

StateNext ==
    \/ SetState
    \/ SetStateCopy
    \/ SetStateRejected
    \/ SetStateArray
    \/ Reset
    \/ Rollback
    \/ SetDebugMode
    \/ GetState
    \/ MutateTop
    \/ MutateNested
    \/ Tick

\* the poller of the page, never started
IdlePoller ==
    /\ PollerInit
    /\ transport = "flaky" /\ callback = "return"
    /\ options.maxAttempts = SmallAttempts /\ DefaultIntervals(options)

(***************************************************************************)
(* The callers of the EventBus.                                            *)
(***************************************************************************)
\* the data a module passes to emit
Payloads == { Event("custom", "first", "", "module"), Event("custom", "second", "", "module") }

BusCall(op, e, f, data) ==
    [op |-> op, event |-> e, fn |-> f, data |-> data, threw |-> FALSE]

ApplyBus(b, call) ==
    /\ events' = b.events
    /\ stamps' = b.stamps
    /\ delivered' = b.calls
    /\ busOp' = [call EXCEPT !.threw = b.threw]
    /\ UNCHANGED << pollerVars, stateVars, serviceVars >>

BusInit ==
    /\ events = NoEvents
    /\ stamps = 0
    /\ delivered = << >>
    /\ busOp = BusCall("new", "", NoFn, Event("", "", "", ""))
    /\ busOps = [subscriptions |-> 0, removals |-> 0, emits |-> 0]

\* a module subscribes a function to an event
On ==
    /\ busOps.subscriptions < MaxSubscriptions
    /\ busOps' = [busOps EXCEPT !.subscriptions = @ + 1]
    /\ \E e \in EventNames, f \in Functions :
         \E b \in {on(CurBus, e, Fn(f))} :
            ApplyBus(b, BusCall("on", e, Fn(f), Event("", "", "", "")))

\* a module calls off, or the function on returned
Off ==
    /\ busOps.removals < MaxRemovals
    /\ busOps' = [busOps EXCEPT !.removals = @ + 1]
    /\ \E e \in EventNames, f \in Functions :
         \E b \in {off(CurBus, e, Fn(f))} :
            ApplyBus(b, BusCall("off", e, Fn(f), Event("", "", "", "")))

\* a module subscribes a function with once
Once ==
    /\ busOps.subscriptions < MaxSubscriptions
    /\ busOps' = [busOps EXCEPT !.subscriptions = @ + 1]
    /\ \E e \in EventNames, f \in OnceCallbacks :
         \E b \in {once(CurBus, e, f)} :
            ApplyBus(b, BusCall("once", e, Wrapper(f, stamps + 1, e), Event("", "", "", "")))

\* the functions once has built that are registered for e
Wrappers(e) ==
    IF e \in DOMAIN events
    THEN {events[e].fns[i].fn : i \in {j \in 1..Len(events[e].fns) : events[e].fns[j].fn.once # 0}}
    ELSE {}

\* a module calls the function once returned
OffOnce ==
    /\ busOps.removals < MaxRemovals
    /\ busOps' = [busOps EXCEPT !.removals = @ + 1]
    /\ \E e \in EventNames :
         \E f \in Wrappers(e) :
            \E b \in {off(CurBus, e, f)} :
               ApplyBus(b, BusCall("off", e, f, Event("", "", "", "")))

\* a module emits an event
Emit ==
    /\ busOps.emits < MaxEmits
    /\ busOps' = [busOps EXCEPT !.emits = @ + 1]
    /\ \E e \in EventNames, data \in Payloads :
         \E b \in {emit(CurBus, e, data)} :
            ApplyBus(b, BusCall("emit", e, NoFn, data))

\* teardown
Clear ==
    /\ busOps.removals < MaxRemovals
    /\ busOps' = [busOps EXCEPT !.removals = @ + 1]
    /\ \E b \in {clear(CurBus)} :
          ApplyBus(b, BusCall("clear", "", NoFn, Event("", "", "", "")))

\* the calls of the StateManager that emit on the bus
ManagerCalls == { "setState", "reset", "rollback" }

\* a module calls setState({status: 'planning'}), reset() or rollback(1)
ManagerEmits ==
    /\ busOps.emits < MaxEmits
    /\ busOps' = [busOps EXCEPT !.emits = @ + 1]
    /\ \E call \in ManagerCalls :
         /\ ops' = [ops EXCEPT !.writes = @ + 1, !.plain = @ /\ call = "setState"]
         /\ busOp' = BusCall(call, "", NoFn, Event("", "", "", ""))
         /\ \E m \in {makeUpdate(Cleared, [status |-> jsPrim("planning")])} :
              \E r \in { CASE call = "setState" -> setState(m, "object", Len(m.heap), "caller")
                           [] call = "reset" -> reset(Cleared)
                           [] call = "rollback" -> rollback(Cleared, 1) } :
                 Applied(r, IF call = "setState" THEN OpSetState(Len(m.heap), "object")
                            ELSE Op(call, IF call = "rollback" THEN 1 ELSE NULL,
                                    "none", FALSE, FALSE))

\* the modules of the page on the bus, and the StateManager that emits on it
BusNext ==
    \/ On
    \/ Off
    \/ Emit
    \/ Clear
    \/ ManagerEmits

\* the modules of the page on the bus, some of them subscribing with once
ChannelNext ==
    \/ On
    \/ Once
    \/ Off
    \/ OffOnce
    \/ Emit
    \/ Clear

\* the events a module subscribes its workflow callback to
HandlerEvents == { "stateChanged", "state:<key>Changed", "statusChanged" }

\* a module subscribes the callback that moves the workflow on
OnAdvance ==
    /\ busOps.subscriptions < MaxSubscriptions
    /\ busOps' = [busOps EXCEPT !.subscriptions = @ + 1]
    /\ \E e \in HandlerEvents :
         \E b \in {on(CurBus, e, Fn("advance"))} :
            ApplyBus(b, BusCall("on", e, Fn("advance"), Event("", "", "", "")))

\* the StateManager with a module whose callback writes the state
CascadeNext ==
    \/ OnAdvance
    \/ SetState
    \/ SetStateRejected
    \/ Reset
    \/ Tick

(***************************************************************************)
(* The ApiService of frontend/src/services/apiService.js, as one record    *)
(* from which a method makes another. app holds the keys of the            *)
(* ApplicationState that the service reads or writes; pollers lists the    *)
(* StatusPollers the service has constructed, statusPoller is the index of *)
(* the one this.statusPoller refers to; timeouts counts the pending        *)
(* setTimeout callbacks by what they call; calls holds the calls of the    *)
(* API client that have not settled. The health check that init() sends    *)
(* has settled.                                                            *)
(***************************************************************************)
\* the statuses the backend reports for a thread
BackendStatuses == { "planning", "pending_approval", "executing", "completed", "failed" }

\* what a getStatus call of the service's pollers settles to
ServiceReplies ==
    [kind : {"ok"}, status : BackendStatuses] \cup {[kind |-> "fail", status |-> "none"]}

\* the keys of getInitialState() that the service reads or writes
InitialApp ==
    [ status |-> "idle", threadId |-> "null", plan |-> "null", progress |-> "0",
      isLoading |-> FALSE, apiConnected |-> TRUE, error |-> "null" ]

\* threads[i] is this.threadId of the poller at index i. What an observer of
\* the service has seen: whether the last cancellation
\* succeeded and no request was submitted since; how far the user is with a
\* new request after an approval that failed
NewService ==
    [ app |-> InitialApp,
      approvalStateLocked |-> FALSE,
      statusPoller |-> NULL,
      pollers |-> << >>,
      threads |-> << >>,
      timeouts |-> [startStatusPolling |-> 0, retry |-> 0, startGentlePolling |-> 0],
      gentlePollingInterval |-> [active |-> FALSE, attemptCount |-> 0],
      progressSimulationInterval |-> FALSE,
      calls |-> {},
      made |-> [requests |-> 0, approvals |-> 0, cancels |-> 0, checks |-> 0, polls |-> 0],
      log |-> [cancelled |-> FALSE, retry |-> "none"] ]

IdleService == service = NewService

\* new StatusPoller(apiClient, threadId, this.handleStatusUpdate, {...}) as
\* startStatusPolling constructs it, intervals in units of 500 ms; the
\* attempt budget is scaled down and the back-off of a failed poll leaves
\* the interval as it is
NewStatusPoller(interval, locked) ==
    [ callback |-> "return",
      options |-> [ interval |-> interval, maxAttempts |-> ServiceAttempts,
                    backoffMultiplier |-> 1, maxInterval |-> 20,
                    adaptivePolling |-> TRUE,
                    statusIntervals |->
                        [st \in {"planning", "awaiting_approval", "executing"}
                                   \cup finalStatuses |->
                            CASE st = "planning" -> 6
                              [] st = "awaiting_approval" -> 20
                              [] st = "executing" -> 3
                              [] OTHER -> 0] ],
      isPolling |-> FALSE, attempts |-> 0, currentInterval |-> interval,
      timeoutId |-> NULL, lastStatus |-> "none", consecutiveErrors |-> 0,
      stats |-> [totalRequests |-> 0, successfulRequests |-> 0, failedRequests |-> 0,
                 averageResponseTime |-> [num |-> 0, den |-> 1]],
      approvalStateLocked |-> locked,
      timers |-> {}, nextTimerId |-> 1, inflight |-> {}, log |-> InitLog,
      exc |-> FALSE, ret |-> FALSE, late |-> FALSE, former |-> FALSE,
      responseTime |-> 0 ]

\* the poller at index i as it runs now: poll() reads the lock of the service
Poller(s, i) == [s.pollers[i] EXCEPT !.approvalStateLocked = s.approvalStateLocked]

\* startStatusPolling without the stop of the poller that is running
startStatusPollingKeep(s) ==
    IF s.app.threadId = "null"
    THEN [s EXCEPT !.timeouts.retry = @ + 1]
    ELSE [s EXCEPT !.pollers =
                      Append(@, start(NewStatusPoller(
                                        IF s.app.status = "executing" THEN 3 ELSE 4,
                                        s.approvalStateLocked))),
                   !.threads = Append(@, s.app.threadId),
                   !.statusPoller = Len(s.pollers) + 1]

\* startStatusPolling()
startStatusPolling(s) ==
    IF s.app.threadId = "null"
    THEN [s EXCEPT !.timeouts.retry = @ + 1]
    ELSE LET cleared == IF s.statusPoller # NULL /\ s.pollers[s.statusPoller].isPolling
                        THEN [s EXCEPT !.pollers[s.statusPoller] = stop(@)]
                        ELSE s
         IN  [cleared EXCEPT !.pollers =
                                Append(@, start(NewStatusPoller(
                                                  IF s.app.status = "executing" THEN 3 ELSE 4,
                                                  s.approvalStateLocked))),
                             !.threads = Append(@, s.app.threadId),
                             !.statusPoller = Len(s.pollers) + 1]

\* stopStatusPolling()
stopStatusPolling(s) ==
    IF s.statusPoller = NULL
    THEN s
    ELSE [s EXCEPT !.pollers[s.statusPoller] = stop(@), !.statusPoller = NULL]

\* forceStopPolling that drops the poller without stopping it
forceStopPollingDropped(s) == [s EXCEPT !.statusPoller = NULL]

\* forceStopPolling(); this.pollingTimeoutId is never assigned
forceStopPolling(s) ==
    IF s.statusPoller = NULL
    THEN s
    ELSE LET stopped == stop(s.pollers[s.statusPoller])
         IN  [s EXCEPT !.pollers[s.statusPoller] =
                          [stopped EXCEPT !.timers = IF stopped.timeoutId # NULL
                                                     THEN clearTimeout(@, stopped.timeoutId)
                                                     ELSE @,
                                          !.timeoutId = NULL,
                                          !.isPolling = FALSE],
                       !.statusPoller = NULL]

\* this.stateManager.setState(updates, source) with the callbacks that init()
\* subscribes to the status events: planning and executing start the
\* polling, completed and error stop it
stateManagerSetState(s, updates) ==
    LET written == [s EXCEPT !.app = spread(@, updates)]
    IN  IF written.app.status = s.app.status
        THEN written
        ELSE CASE written.app.status \in {"planning", "executing"} ->
                     startStatusPolling(written)
               [] written.app.status \in {"completed", "error"} ->
                     stopStatusPolling(written)
               [] OTHER -> written

\* handleApiError(error, context) for a call that the network has failed
handleApiError(s) ==
    stateManagerSetState(s, [ status |-> "error", error |-> "message",
                              isLoading |-> FALSE, apiConnected |-> FALSE ])

\* the statuses of the backend that stand for a plan to approve
ApprovalStatuses == { "pending_approval", "awaiting_approval" }

\* stateUpdates of handleStatusUpdate
stateUpdates(status) ==
    CASE status = "planning" ->
            [ progress |-> "0", status |-> "planning", isLoading |-> TRUE ]
      [] status \in ApprovalStatuses ->
            [ progress |-> "0", status |-> "awaiting_approval", plan |-> "plan",
              isLoading |-> FALSE ]
      [] status \in {"executing", "in_progress", "ready_for_execution"} ->
            [ progress |-> "0", status |-> "executing", plan |-> "plan",
              isLoading |-> FALSE ]
      [] status = "completed" ->
            [ progress |-> "1", status |-> "completed", isLoading |-> FALSE ]
      [] status \in {"failed", "cancelled"} ->
            [ progress |-> "0", status |-> "error", error |-> "message",
              isLoading |-> FALSE ]
      [] OTHER -> [ progress |-> "0" ]

\* handleStatusUpdate(statusData)
handleStatusUpdate(s, statusData) ==
    IF s.approvalStateLocked
    THEN s
    ELSE IF ~statusData.success
    THEN IF s.app.status = "awaiting_approval"
         THEN stateManagerSetState(s, [apiConnected |-> FALSE])
         ELSE IF statusData.pollingFailed
         THEN stateManagerSetState(s, [error |-> "message", apiConnected |-> FALSE])
         ELSE s
    ELSE IF /\ s.approvalStateLocked
            /\ s.app.status = "awaiting_approval"
            /\ statusData.status \in ApprovalStatuses
    THEN stateManagerSetState(s, [apiConnected |-> TRUE])
    ELSE LET unlocked == IF s.app.status = "planning"
                              /\ statusData.status \in ApprovalStatuses
                         THEN [s EXCEPT !.approvalStateLocked = FALSE]
                         ELSE s
             connected == stateManagerSetState(unlocked, [apiConnected |-> TRUE])
             updates == stateUpdates(statusData.status)
             tuned == IF /\ statusData.status \in
                               {"executing", "in_progress", "ready_for_execution"}
                         /\ connected.statusPoller # NULL
                      THEN [connected EXCEPT !.pollers[connected.statusPoller] =
                                                updateOptions(@, [interval |-> 4])]
                      ELSE connected
             written == stateManagerSetState(tuned, updates)
         IN  IF "status" \in DOMAIN updates /\ updates.status = "awaiting_approval"
             THEN forceStopPolling([written EXCEPT !.approvalStateLocked = TRUE])
             ELSE written

\* a call of the API client that has not settled
ApiCall(op, n, approved) == [op |-> op, n |-> n, approved |-> approved]

\* submitRequest(userRequest), up to the await of apiClient.submitRequest
submitRequest(s) ==
    Then({stateManagerSetState(s, [ isLoading |-> TRUE, status |-> "planning",
                                    error |-> "null" ])},
         LAMBDA loading :
            [loading EXCEPT !.calls = @ \cup {ApiCall("submitRequest",
                                                      s.made.requests + 1, FALSE)},
                            !.made.requests = @ + 1,
                            !.log.cancelled = FALSE])

\* the thread the backend opens for the request
ThreadOf(call) == IF call.n = 1 THEN "first" ELSE "later"

\* submitRequest from the point where the await settles
submitRequestResume(s, call, success) ==
    IF success
    THEN Then({stateManagerSetState(s, [ threadId |-> ThreadOf(call),
                                         status |-> "planning",
                                         isLoading |-> FALSE ])},
              LAMBDA known :
                 [known EXCEPT !.timeouts.startStatusPolling = @ + 1,
                               !.log.retry = IF @ = "reset" THEN "resubmitted" ELSE @])
    ELSE handleApiError(s)

\* handlePlanApproval(approvalData), up to the await of submitApproval
handlePlanApproval(s, threadId, approved) ==
    IF threadId = "null"
    THEN s
    ELSE Then({stateManagerSetState(s, [isLoading |-> TRUE])}, LAMBDA loading :
            [loading EXCEPT !.calls = @ \cup {ApiCall("submitApproval",
                                                      s.made.approvals + 1, approved)},
                            !.made.approvals = @ + 1])

\* handlePlanApproval from the point where the await settles
handlePlanApprovalResume(s, call, success) ==
    IF ~success
    THEN [handleApiError(s) EXCEPT !.log.retry = "failed"]
    ELSE LET unlocked == [s EXCEPT !.approvalStateLocked = FALSE]
         IN  IF call.approved
             THEN Then({stateManagerSetState(unlocked, [ status |-> "executing",
                                                         isLoading |-> FALSE ])},
                       LAMBDA executing :
                          [executing EXCEPT !.progressSimulationInterval = TRUE,
                                            !.timeouts.startGentlePolling = @ + 1])
             ELSE Then({stateManagerSetState(unlocked, [ status |-> "planning",
                                                         plan |-> "null",
                                                         isLoading |-> TRUE ])},
                       LAMBDA planning :
                          [planning EXCEPT !.timeouts.startStatusPolling = @ + 1])

\* handleCancelWorkflow(data), up to the await of cancelWorkflow
handleCancelWorkflow(s, threadId) ==
    IF threadId = "null"
    THEN s
    ELSE [s EXCEPT !.calls = @ \cup {ApiCall("cancelWorkflow", s.made.cancels + 1, FALSE)},
                   !.made.cancels = @ + 1]

\* handleCancelWorkflow from the point where the await settles
handleCancelWorkflowResume(s, success) ==
    IF success
    THEN [stateManagerSetState(s, [ status |-> "idle", threadId |-> "null",
                                    plan |-> "null", progress |-> "0",
                                    isLoading |-> FALSE ])
             EXCEPT !.log.cancelled = TRUE]
    ELSE handleApiError(s)

\* ClarityApp.resetToIdle() of main.js
resetToIdle(s) ==
    [stateManagerSetState(s, [ status |-> "idle", error |-> "null", threadId |-> "null",
                               plan |-> "null", progress |-> "0", isLoading |-> FALSE ])
        EXCEPT !.log.retry = IF @ = "failed" THEN "reset" ELSE @]

\* performImmediateStatusCheck(), up to the await of getStatus
performImmediateStatusCheck(s) ==
    IF s.app.threadId = "null"
    THEN s
    ELSE [s EXCEPT !.calls = @ \cup {ApiCall("getStatus", s.made.checks + 1, FALSE)},
                   !.made.checks = @ + 1]

\* the data of a getStatus result as handleStatusUpdate receives it
StatusData(resp) == [success |-> TRUE, status |-> resp.status, pollingFailed |-> FALSE]

\* performImmediateStatusCheck from the point where the await settles
performImmediateStatusCheckResume(s, resp) ==
    IF resp.kind = "ok" THEN handleStatusUpdate(s, StatusData(resp)) ELSE s

\* startGentlePolling(): clears the interval it set before and sets a new one
startGentlePolling(s) ==
    [s EXCEPT !.gentlePollingInterval = [active |-> TRUE, attemptCount |-> 0]]

\* handlePollingTimeout()
handlePollingTimeout(s) ==
    stateManagerSetState([s EXCEPT !.progressSimulationInterval = FALSE],
                         [ status |-> "completed", progress |-> "1",
                           isLoading |-> FALSE ])

\* the callback of the interval of startGentlePolling, up to the await of
\* getStatus
gentlePoll(s) ==
    LET counted == [s EXCEPT !.gentlePollingInterval.attemptCount = @ + 1]
        over == counted.gentlePollingInterval.attemptCount > GentleAttempts
    IN  IF counted.app.status # "executing" \/ over
        THEN Then({[counted EXCEPT !.gentlePollingInterval.active = FALSE]},
                  LAMBDA cleared :
                     IF over THEN handlePollingTimeout(cleared) ELSE cleared)
        ELSE [counted EXCEPT !.calls = @ \cup {ApiCall("gentle", s.made.polls + 1, FALSE)},
                             !.made.polls = @ + 1]

\* the callback of the interval of startGentlePolling from the point where
\* the await settles
gentlePollResume(s, resp) ==
    IF resp.kind = "ok" /\ resp.status \in {"completed", "failed"}
    THEN stateManagerSetState(
             [s EXCEPT !.progressSimulationInterval = FALSE,
                       !.gentlePollingInterval.active = FALSE],
             IF resp.status = "completed"
             THEN [ status |-> "completed", progress |-> "1", isLoading |-> FALSE ]
             ELSE [ status |-> "error", error |-> "message", isLoading |-> FALSE ])
    ELSE s

\* the callback of the interval of startProgressSimulation
simulateProgress(s) ==
    IF s.app.status # "executing"
    THEN [s EXCEPT !.progressSimulationInterval = FALSE]
    ELSE stateManagerSetState(s, [progress |-> "simulated"])

\* poll() of the poller at index i from the point where its getStatus call r
\* settles as resp. this.onUpdate is handleStatusUpdate: it runs on the
\* service, and what it does to the poller that calls it (stop() and
\* updateOptions()) happens to that poller at the place of the call.
pollerResume(s, i, r, resp, rt) ==
    LET told == IF resp.kind = "ok" THEN handleStatusUpdate(s, StatusData(resp)) ELSE s
        w == [Poller(s, i) EXCEPT
                 !.inflight = @ \ {r},
                 !.late = r.stopped,
                 !.former = r.session # s.pollers[i].log.sessions,
                 !.responseTime = rt,
                 !.options = told.pollers[i].options,
                 !.log.optionUpdates = told.pollers[i].log.optionUpdates,
                 !.log.optionsChanged = told.pollers[i].log.optionsChanged,
                 !.callback = IF s.pollers[i].isPolling /\ ~told.pollers[i].isPolling
                              THEN "stop" ELSE "return"]
    IN  [told EXCEPT !.pollers[i] = pollResume(w, resp)]

(***************************************************************************)
(* The user, the host and the backend of the ApiService.                   *)
(***************************************************************************)
ApplyService(s) ==
    /\ Len(s.pollers) <= MaxPollers
    /\ service' = s
    /\ UNCHANGED << pollerVars, stateVars, busVars >>

\* the user submits a request with the input form, shown while idle; a
\* request after the first is explored after an approval that failed
SubmitRequest ==
    /\ service.app.status = "idle"
    /\ service.made.requests < MaxRequests
    /\ service.made.requests = 0 \/ service.log.retry = "reset"
    /\ \E s \in {submitRequest(service)} : ApplyService(s)

SubmitSettles ==
    \E call \in service.calls, success \in BOOLEAN :
       /\ call.op = "submitRequest"
       /\ \E s \in {submitRequestResume([service EXCEPT !.calls = @ \ {call}],
                                         call, success)} :
             ApplyService(s)

\* setTimeout(() => { this.startStatusPolling() }, ...) is due
StartTimerFires ==
    /\ service.timeouts.startStatusPolling > 0
    /\ \E s \in {startStatusPolling([service EXCEPT
                                        !.timeouts.startStatusPolling = @ - 1])} :
          ApplyService(s)

\* the timer that startStatusPolling sets without a thread id is due
RetryTimerFires ==
    /\ service.timeouts.retry > 0
    /\ \E taken \in {[service EXCEPT !.timeouts.retry = @ - 1]} :
         \E s \in {IF /\ taken.app.threadId # "null"
                      /\ taken.app.status \in {"planning", "executing", "awaiting_approval"}
                   THEN startStatusPolling(taken) ELSE taken} :
            ApplyService(s)

\* setTimeout(() => { this.startGentlePolling() }, 2000) is due
GentleTimerFires ==
    /\ service.timeouts.startGentlePolling > 0
    /\ \E s \in {startGentlePolling([service EXCEPT
                                        !.timeouts.startGentlePolling = @ - 1])} :
          ApplyService(s)

\* a timer of a poller is due: () => this.poll()
PollerTimerFires ==
    \E i \in DOMAIN service.pollers :
       \E t \in service.pollers[i].timers :
          \E w \in {poll([Poller(service, i) EXCEPT !.timers = @ \ {t}])} :
             ApplyService([service EXCEPT !.pollers[i] = w])

\* a getStatus call of a poller settles
PollerSettles ==
    \E i \in DOMAIN service.pollers :
       \E r \in service.pollers[i].inflight, resp \in ServiceReplies :
          \E rt \in ResponseTimes(resp) :
             \E s \in {pollerResume(service, i, r, resp, rt)} :
                ApplyService(s)

\* the user approves or rejects the plan that PlanVerification shows
PlanApproval ==
    /\ service.app.status = "awaiting_approval"
    /\ service.made.approvals < MaxApprovals
    /\ \E approved \in BOOLEAN :
         \E s \in {handlePlanApproval(service, service.app.threadId, approved)} :
            ApplyService(s)

ApprovalSettles ==
    \E call \in service.calls, success \in BOOLEAN :
       /\ call.op = "submitApproval"
       /\ \E s \in {handlePlanApprovalResume([service EXCEPT !.calls = @ \ {call}],
                                              call, success)} :
             ApplyService(s)

\* the user cancels the workflow of the thread the page shows
CancelWorkflow ==
    /\ service.app.threadId # "null"
    /\ service.made.cancels < MaxCancels
    /\ \E s \in {handleCancelWorkflow(service, service.app.threadId)} :
          ApplyService(s)

CancelSettles ==
    \E call \in service.calls, success \in BOOLEAN :
       /\ call.op = "cancelWorkflow"
       /\ \E s \in {handleCancelWorkflowResume([service EXCEPT !.calls = @ \ {call}],
                                                success)} :
             ApplyService(s)

\* the user leaves the error view or the results with the button
ResetToIdle ==
    /\ service.app.status \in {"error", "completed"}
    /\ \E s \in {resetToIdle(service)} : ApplyService(s)

\* window.forceStatusCheck(), explored while the page shows a plan to approve
StatusCheck ==
    /\ service.app.status = "awaiting_approval"
    /\ service.app.threadId # "null"
    /\ service.made.checks < MaxChecks
    /\ \E s \in {performImmediateStatusCheck(service)} : ApplyService(s)

StatusCheckSettles ==
    \E call \in service.calls, resp \in ServiceReplies :
       /\ call.op = "getStatus"
       /\ \E s \in {performImmediateStatusCheckResume(
                        [service EXCEPT !.calls = @ \ {call}], resp)} :
             ApplyService(s)

\* the interval of startGentlePolling is due
GentleTick ==
    /\ service.gentlePollingInterval.active
    /\ \E s \in {gentlePoll(service)} : ApplyService(s)

GentleSettles ==
    \E call \in service.calls, resp \in ServiceReplies :
       /\ call.op = "gentle"
       /\ \E s \in {gentlePollResume([service EXCEPT !.calls = @ \ {call}], resp)} :
             ApplyService(s)

\* the interval of startProgressSimulation is due
SimulationTick ==
    /\ service.progressSimulationInterval
    /\ \E s \in {simulateProgress(service)} : ApplyService(s)

ServiceNext ==
    \/ SubmitRequest
    \/ SubmitSettles
    \/ StartTimerFires
    \/ RetryTimerFires
    \/ GentleTimerFires
    \/ PollerTimerFires
    \/ PollerSettles
    \/ PlanApproval
    \/ ApprovalSettles
    \/ CancelWorkflow
    \/ CancelSettles
    \/ ResetToIdle
    \/ StatusCheck
    \/ StatusCheckSettles
    \/ GentleTick
    \/ GentleSettles
    \/ SimulationTick

(***************************************************************************)
(* The specifications.                                                     *)
(***************************************************************************)
\* a poller and its host, beside a StateManager nobody calls
PollerStart == PollerInit /\ StateInit /\ BusInit /\ IdleService

PollerSpec == PollerStart /\ [][PollerNext]_vars

\* the host runs a timer that is due, and every getStatus promise settles
PollerFairSpec ==
    PollerStart /\ [][PollerFairNext]_vars /\ WF_vars(TimerFires) /\ WF_vars(Settles)

\* a StateManager with its callers and listeners, beside an idle poller
StateStart == IdlePoller /\ StateInit /\ BusInit /\ IdleService

StateSpec == StateStart /\ [][StateNext]_vars

\* the updates of a session that alternates between planning and executing
FillTemplate(i) ==
    IF i % 2 = 1
    THEN [ status |-> jsPrim("planning") ]
    ELSE [ status |-> jsPrim("executing"), plan |-> jsObject([steps |-> jsPrim("one")]) ]

\* the manager after the calls from..to of a session in which every call is a
\* setState one tick after the call before; emitted holds the events of all
\* of them
RECURSIVE Session(_, _, _)
Session(m, from, to) ==
    IF from > to
    THEN m
    ELSE IF from = to
    THEN Then({makeUpdate([m EXCEPT !.now = @ + 1], FillTemplate(from))},
              LAMBDA made : setState(made, "object", Len(made.heap), "caller"))
    ELSE Then({Session(m, from, (from + to) \div 2)},
              LAMBDA half : Session(half, (from + to) \div 2 + 1, to))

\* the manager after n calls of setState
Filled(n) == Session(NewManager, 1, n)

\* how many calls of setState the session has made: one or two, or so many
\* that the history is one entry short of full, or full
HistoryFills == { 1, 2, maxHistorySize - 1, maxHistorySize }

\* a StateManager after a session of HistoryFills calls of setState
HistoryInit ==
    \E n \in HistoryFills :
      \E before \in {Filled(n - 1)} :
        \E m \in {makeUpdate([before EXCEPT !.now = @ + 1, !.emitted = << >>],
                              FillTemplate(n))} :
          \E r \in {setState(m, "object", Len(m.heap), "caller")} :
             /\ heap = r.heap
             /\ state = r.state
             /\ history = r.history
             /\ debugMode = r.debugMode
             /\ now = r.now
             /\ emitted = r.emitted
             /\ lastOp = OpSetState(Len(m.heap), "object")
             /\ ops = [writes |-> 0, copies |-> 0, mutations |-> 0, ticks |-> 0,
                       plain |-> TRUE]
             /\ observed = Observe(r, Observe(before, << >>, "idle").returned,
                                   LastTo(before.emitted, "idle"))

\* the calls that write the state or the history, and the clock
HistoryNext ==
    \/ SetState
    \/ SetStateRejected
    \/ SetStateArray
    \/ Reset
    \/ Rollback
    \/ SetDebugMode
    \/ Tick

HistoryStart == IdlePoller /\ HistoryInit /\ BusInit /\ IdleService

\* a StateManager late in a session, its history at the cap
HistorySpec == HistoryStart /\ [][HistoryNext]_vars

CascadeStart == IdlePoller /\ StateInit /\ BusInit /\ IdleService

\* a StateManager whose events reach a callback that calls setState
CascadeSpec == CascadeStart /\ [][CascadeNext]_vars

ServiceStart == IdlePoller /\ StateInit /\ BusInit /\ IdleService

\* the ApiService with its user, its timers and a backend that answers a
\* call in any way
ServiceSpec == ServiceStart /\ [][ServiceNext]_vars

\* timers that are due fire and calls of the API client settle
ServiceFairSpec ==
    /\ ServiceSpec
    /\ WF_vars(StartTimerFires) /\ WF_vars(RetryTimerFires)
    /\ WF_vars(GentleTimerFires) /\ WF_vars(PollerTimerFires)
    /\ WF_vars(PollerSettles) /\ WF_vars(SubmitSettles)
    /\ WF_vars(ApprovalSettles) /\ WF_vars(CancelSettles)
    /\ WF_vars(StatusCheckSettles) /\ WF_vars(GentleSettles)

\* an EventBus with the modules that subscribe and emit, and the StateManager
\* that emits on it
BusStart == IdlePoller /\ StateInit /\ BusInit /\ IdleService

BusSpec == BusStart /\ [][BusNext]_vars

\* an EventBus with functions subscribed by on and by once
ChannelStart == IdlePoller /\ StateInit /\ BusInit /\ IdleService

ChannelSpec == ChannelStart /\ [][ChannelNext]_vars

(***************************************************************************)
(* Claims about the StatusPoller.                                          *)
(***************************************************************************)
\* the instance is in its first session, which nothing but the poller itself
\* has ended, under the options it was started with
Undisturbed ==
    /\ log.sessions = 1
    /\ log.externalStops = 0
    /\ log.lockStops = 0
    /\ ~log.optionsChanged

\* nothing of the poller is pending
Quiet == ~isPolling /\ timers = {} /\ inflight = {}

\* C1: at every instant at most one getStatus request of the poller is in
\* flight and at most one next cycle is scheduled, whatever the interleaving
\* of start(), stop(), timer firings and responses.
C1_OneRequestOneTimer ==
    Cardinality(inflight) <= 1 /\ Cardinality(timers) <= 1

\* C2: onUpdate is never invoked for the response of a request that was in
\* flight when stop() ran, neither with the transport's result nor with the
\* synthetic pollingFailed payload.
C2_LateResponseIgnored == log.lateUpdates = 0

\* C3: with a transport whose every call fails and maxAttempts at least the
\* ceiling, onUpdate is invoked only once the ceiling is reached, then exactly
\* once and with the pollingFailed payload, and the poller has stopped.
C3_PollingFailedOnce ==
    (Undisturbed /\ transport = "failing"
        /\ options.maxAttempts >= maxConsecutiveErrors)
    => /\ log.updates = log.failedUpdates
       /\ log.updates <= 1
       /\ log.updates = 1 <=> consecutiveErrors >= maxConsecutiveErrors
       /\ log.updates = 1 => Quiet

C5_StopsAtFinalStatus ==
    (Undisturbed /\ log.finalAt > 0)
    => /\ log.calls = log.finalAt
       /\ log.updates = log.finalAt
       /\ log.lastUpdate.success /\ log.lastUpdate.status \in finalStatuses
       /\ Quiet

\* the step handles a failed poll of the running session
FailedPollStep ==
    /\ stats.failedRequests' > stats.failedRequests
    /\ log.sessions' = log.sessions
    /\ ~log.optionsChanged

\* C6: for every options configuration, a failed poll never lowers
\* currentInterval and leaves it at most maxInterval.
C6_BackoffMonotoneAnyOptions ==
    [][FailedPollStep =>
          /\ currentInterval' >= currentInterval
          /\ currentInterval' <= options.maxInterval]_vars

\* C7: a started poller that is not restarted and whose options are not
\* changed makes at most maxAttempts calls and eventually is not polling.
C7_Terminates ==
    /\ []((log.sessions = 1 /\ ~log.optionsChanged)
            => log.calls <= options.maxAttempts)
    /\ ((isPolling /\ log.sessions = 1 /\ ~log.optionsChanged)
            ~> (~isPolling \/ log.sessions > 1 \/ log.optionsChanged))

\* the first session has used up its attempt budget
C7_Witness ==
    /\ Undisturbed /\ Quiet
    /\ attempts = options.maxAttempts
    /\ log.calls = options.maxAttempts

(***************************************************************************)
(* Claims about the StateManager.                                          *)
(***************************************************************************)
\* what getState() returns when called now
Returned == observed.returned

\* the states the history entries hold
HistoryStates == observed.history

\* the step assigns to a value getState() returned, or to an object inside
\* it that was not handed to setState since
MutatesCopy ==
    lastOp'.op = "mutate" /\ lastOp'.via = "getState" /\ ~lastOp'.passed

C9_SingleWriter ==
    [][Returned' # Returned =>
          lastOp'.op \in {"setState", "reset", "rollback", "setDebugMode"}]_vars

\* v without its updatedAt
SansUpdatedAt(v) == [key \in DOMAIN v \ {"updatedAt"} |-> v[key]]

\* JSON.parse(JSON.stringify(v)) of a value written out
jsonValue(v) ==
    [key \in DOMAIN jsonObject(v) |->
        IF IsObject(v[key]) THEN jsObject(jsonObject(v[key].o)) ELSE v[key]]

\* the deep merge of two values written out
deepMerge(under, over) ==
    [key \in DOMAIN under \cup DOMAIN over |->
        IF key \notin DOMAIN over THEN under[key]
        ELSE IF key \in DOMAIN under /\ IsObject(under[key]) /\ IsObject(over[key])
        THEN jsObject(spread(under[key].o, over[key].o))
        ELSE over[key]]

\* the step is a setState call that accepts its update
AcceptedUpdate == lastOp'.op = "setState" /\ lastOp'.arg # NULL

\* C10: after setState(u), getState() returns the deep merge of what it
\* returned before and u, apart from updatedAt.
C10_DeepMerge ==
    [][AcceptedUpdate =>
          SansUpdatedAt(Returned') =
              SansUpdatedAt(jsonValue(deepMerge(Returned, View(heap', lastOp'.arg))))]_vars

\* C10 as amended: after setState(u), getState() returns the JSON round trip
\* of the top-level merge of what it returned before and u, apart from
\* updatedAt.
C10_ShallowMerge ==
    [][AcceptedUpdate =>
          SansUpdatedAt(Returned') =
              SansUpdatedAt(jsonValue(spread(Returned, View(heap', lastOp'.arg))))]_vars

\* an update with a preferences object of one key has replaced the block
C10_Witness ==
    /\ lastOp.op = "setState" /\ lastOp.arg # NULL
    /\ DOMAIN View(heap, lastOp.arg) = {"preferences"}
    /\ DOMAIN View(heap, lastOp.arg)["preferences"].o = {"debugMode"}
    /\ DOMAIN Returned["preferences"].o = {"debugMode"}

\* the step is a call that pushes a history entry and keeps it: a setState
\* that accepts its update, or setDebugMode
PushesHistory ==
    (lastOp'.op = "setState" /\ ~IsInvalidUpdates(lastOp'.kind)) \/ lastOp'.op = "setDebugMode"

\* C11: the history never holds more than maxHistorySize entries; a call
\* that pushes an entry onto a full history evicts the oldest entry and only
\* that one, the others keeping their order, and the entry pushed holds the
\* state from before the call.
C11_HistoryBounded ==
    /\ [](Len(history) <= maxHistorySize)
    /\ [][(PushesHistory /\ Len(history) = maxHistorySize) =>
             /\ Len(history') = maxHistorySize
             /\ SubSeq(history', 1, maxHistorySize - 1) = Tail(history)
             /\ SubSeq(HistoryStates', 1, maxHistorySize - 1) = Tail(HistoryStates)
             /\ HistoryStates'[maxHistorySize] = Returned]_vars

\* an accepted setState has found the history full and evicted the entry of
\* the first call of the session
C11_Witness ==
    /\ lastOp.op = "setState" /\ ~IsInvalidUpdates(lastOp.kind)
    /\ ops.writes > 0
    /\ Len(history) = maxHistorySize
    /\ history[1].timestamp > 1

\* the step is rollback(k) on a history of at least k entries, k >= 1
Restores(k) == lastOp'.op = "rollback" /\ lastOp'.arg = k /\ k \in 1..Len(history)

\* C12: rollback(k) with 1 <= k <= history length makes the state recorded k
\* entries back the current state and removes the last k history entries and
\* only those; rollback(1) right after an accepted setState gives back the
\* state from before that setState.
C12_RollbackRestores ==
    [][/\ \A k \in 1..MaxSteps :
            Restores(k) =>
               /\ Returned' = HistoryStates[Len(history) - k + 1]
               /\ history' = SubSeq(history, 1, Len(history) - k)
               /\ HistoryStates' = SubSeq(HistoryStates, 1, Len(history) - k)
       /\ (lastOp.op = "setState" /\ ~IsInvalidUpdates(lastOp.kind) /\ Restores(1))
             => Returned' = observed.prior]_vars

\* rollback(2) has restored the state of the entry before the last one, which
\* differs from the state of the last entry
C12_Witness ==
    /\ lastOp.op = "rollback" /\ lastOp.arg = 2
    /\ Len(emitted) = 1 /\ emitted[1].name = "stateRolledBack"
    /\ Len(history) > 0
    /\ Returned["status"] # observed.prior["status"]

\* C13: a rollback that restores a state emits one stateRolledBack event
\* carrying its steps, whose newState is the restored state, and no other
\* event, whether or not the restored status differs from the status before.
C13_RollbackEvents ==
    [][(\E k \in 1..MaxSteps : Restores(k)) =>
          /\ emitted' = << Event("stateRolledBack", lastOp'.arg, "", "") >>
          /\ heap'[state'].origin = "rolledBack"
          /\ View(heap', state') = Returned']_vars

\* rollback(1) has restored a state of another status than the one before it
C13_Witness ==
    /\ lastOp.op = "rollback" /\ lastOp.arg = 1
    /\ ~observed.threw
    /\ state = Len(heap) /\ heap[state].origin = "rolledBack"
    /\ Returned["status"] # observed.prior["status"]

\* C14: rollback(steps) does not throw for any integer steps; when it
\* restores nothing it leaves the state and the history as they were and
\* emits no event.
C14_RollbackNeverThrows ==
    [][lastOp'.op = "rollback" =>
          /\ ~observed'.threw
          /\ ~(\E k \in 1..MaxSteps : Restores(k)) =>
                (state' = state /\ history' = history /\ emitted' = << >>)]_vars

\* C15: setState with an argument that is not a plain mapping (null,
\* undefined, a number, a string, a boolean, a function or an array) does not
\* throw and changes nothing: the state with its updatedAt and the history stay
\* as they were and no event is emitted.
C15_NonMappingRejected ==
    [][(lastOp'.op = "setState" /\ lastOp'.kind # "object") =>
          /\ ~observed'.threw
          /\ Returned' = Returned
          /\ history' = history
          /\ emitted' = << >>]_vars

\* the step is setState(u) with an object u that has a status
SetsStatus ==
    /\ lastOp'.op = "setState" /\ lastOp'.kind = "object"
    /\ "status" \in DOMAIN heap'[lastOp'.arg].obj

\* C16: setState({status: t}) is never rejected, whatever the current status
\* and whether or not the change is in the transition table: afterwards
\* getState().status is t, the history has one more entry, which holds the
\* state from before, and the events are those of any status change:
\* stateChanged first and, iff t differs from the status before, statusChanged
\* from that status to t and status:<t> last.
C16_StatusNeverRejected ==
    [][SetsStatus =>
          LET t == heap'[lastOp'.arg].obj["status"].p
              from == Returned["status"].p
              n == Len(emitted')
          IN  /\ ~observed'.threw
              /\ Returned'["status"].p = t
              /\ history' = Append(history, history'[Len(history')])
              /\ HistoryStates'[Len(history')] = Returned
              /\ n >= 1 /\ emitted'[1].name = "stateChanged"
              /\ \A i \in 1..n : emitted'[i].name = "statusChanged" => i = n - 1
              /\ \A i \in 1..n : emitted'[i].name = "status:<status>" => i = n
              /\ t # from =>
                    /\ n >= 3
                    /\ emitted'[n - 1] = Event("statusChanged", t, from, "caller")
                    /\ emitted'[n] = Event("status:<status>", t, "", "caller")
              /\ t = from =>
                    \A i \in 1..n : emitted'[i].name \notin {"statusChanged", "status:<status>"}]_vars

\* a setState has moved the status to one the table does not know, and the
\* table does not allow the change from the status before either
C16_Witness ==
    /\ lastOp.op = "setState" /\ lastOp.kind = "object"
    /\ Returned["status"].p = "archived"
    /\ OutOfTable(observed.prior["status"].p, "archived")
    /\ observed.prior["status"].p \in DOMAIN validStatusTransitions
    /\ Len(history) = 2

\* C17: a setState that accepts its update emits, in this order: one
\* stateChanged; one state:<key>Changed for every top-level key of the new
\* state whose value is not identical to the value before (an object is
\* identical to itself only) and none for the other keys; and, iff the status
\* differs, one statusChanged with from, to and source followed at once by
\* status:<to>.
C17_EventOrder ==
    [][(lastOp'.op = "setState" /\ ~IsInvalidUpdates(lastOp'.kind)) =>
          LET previous == heap[state].obj
              new == heap'[state'].obj
              n == Len(emitted')
              differ == {key \in DOMAIN new : Get(previous, key) # new[key]}
              turned == Get(previous, "status") # Get(new, "status")
              last == IF turned THEN n - 2 ELSE n
          IN  /\ n >= 1
              /\ emitted'[1] = Event("stateChanged", "", "", "caller")
              /\ \A i \in 2..last :
                    /\ emitted'[i].name = "state:<key>Changed"
                    /\ emitted'[i].source = "caller"
              /\ \A key \in DOMAIN new :
                    Cardinality({i \in 2..last : emitted'[i].arg = key})
                        = IF key \in differ THEN 1 ELSE 0
              /\ last = 1 + Cardinality(differ)
              /\ turned =>
                    /\ emitted'[n - 1] = Event("statusChanged", new["status"].p,
                                               previous["status"].p, "caller")
                    /\ emitted'[n] = Event("status:<status>", new["status"].p, "", "caller")]_vars

\* a setState has changed the status and the plan and left other keys as they
\* were, after the clock had moved
C17_Witness ==
    /\ lastOp.op = "setState" /\ lastOp.kind = "object"
    /\ Len(emitted) = 6
    /\ emitted[2].arg = "status" /\ emitted[3].arg = "plan" /\ emitted[4].arg = "updatedAt"
    /\ emitted[5].name = "statusChanged" /\ emitted[6].name = "status:<status>"

\* C18: while setState is the only operation that writes, the statusChanged
\* events form a chain: the from of each is the to of the one before it, idle
\* for the first, and each is followed at once by the status:<to> of its to.
C18_StatusChain ==
    [][(ops'.plain /\ lastOp'.op = "setState") =>
          \A i \in 1..Len(emitted') :
             emitted'[i].name = "statusChanged" =>
                /\ emitted'[i].from = observed.lastTo
                /\ observed'.lastTo = emitted'[i].arg
                /\ i < Len(emitted')
                /\ emitted'[i + 1].name = "status:<status>"
                /\ emitted'[i + 1].arg = emitted'[i].arg]_vars

\* the second statusChanged of a session of setState calls
C18_Witness ==
    /\ ops.plain /\ ops.writes = 2
    /\ lastOp.op = "setState"
    /\ \E i \in 1..Len(emitted) :
          /\ emitted[i].name = "statusChanged"
          /\ emitted[i].from # "idle"

(***************************************************************************)
(* Claims about the EventBus.                                              *)
(***************************************************************************)
\* the functions registered for e before the step, in registration order
Registered(e) ==
    IF e \in DOMAIN events
    THEN [i \in 1..Len(events[e].fns) |-> events[e].fns[i].fn]
    ELSE << >>

\* the calls the step made of the callbacks of e, in order
Calls(e) == SelectSeq(delivered', LAMBDA c : c.event = e)

\* the step called f as a callback of e
Invoked(f, e) == \E i \in 1..Len(Calls(e)) : Calls(e)[i].fn = f

\* f is registered for e after the step
StillRegistered(f, e) ==
    e \in DOMAIN events' /\ \E i \in 1..Len(events'[e].fns) : events'[e].fns[i].fn = f

\* the step is a call of emit by a module
EmitStep == busOp'.op = "emit"

\* the step is a call of setState, reset or rollback of the StateManager
ManagerStep == busOp'.op \in ManagerCalls

\* the names of EventNames the step emitted
EmittedNames ==
    IF EmitStep THEN {busOp'.event}
    ELSE IF ManagerStep
    THEN {emitted'[i].name : i \in 1..Len(emitted')} \cap EventNames
    ELSE {}

\* C19: when a callback throws during an emit, every function registered
\* after it for the event is still called in that emit, unless a callback
\* unsubscribed it meanwhile, and no exception reaches the caller of emit, nor
\* the caller of the setState, reset or rollback that emitted.
C19_FaultIsolation ==
    [][/\ EmitStep => ~busOp'.threw
       /\ ManagerStep => ~observed'.threw
       /\ \A e \in EmittedNames :
             \A i, j \in 1..Len(Registered(e)) :
                (/\ i < j
                 /\ Body(Registered(e)[i].name).does = "throw"
                 /\ Invoked(Registered(e)[i], e))
                   => (Invoked(Registered(e)[j], e) \/ ~StillRegistered(Registered(e)[j], e))]_vars

\* setState has emitted stateChanged to a callback that threw and then to
\* one registered after it
C19_Witness ==
    /\ busOp.op = "setState"
    /\ \E i, j \in 1..Len(delivered) :
          /\ i < j
          /\ delivered[i].fn = Fn("faulty") /\ delivered[i].event = "stateChanged"
          /\ delivered[j].fn = Fn("audit") /\ delivered[j].event = "stateChanged"

\* the data the step emitted e with
EmittedData(e) ==
    IF EmitStep THEN busOp'.data
    ELSE emitted'[CHOOSE i \in 1..Len(emitted') : emitted'[i].name = e]

\* the calls of the step for e are those of the functions of list, in that
\* order, each with the data emitted
CalledInOrder(e, list) ==
    /\ Len(Calls(e)) = Len(list)
    /\ \A i \in 1..Len(list) :
          Calls(e)[i].fn = list[i] /\ Calls(e)[i].data = EmittedData(e)

\* the step called no callback for a name it did not emit
OnlyEmitted == \A i \in 1..Len(delivered') : delivered'[i].event \in EmittedNames

\* C20: an emit of e calls every function registered for e when emit is
\* called, once each, in registration order, with the data emitted, and no
\* function registered for other names only.
C20_AllRegisteredCalled ==
    [][(EmitStep \/ ManagerStep) =>
          /\ OnlyEmitted
          /\ \A e \in EmittedNames : CalledInOrder(e, Registered(e))]_vars

\* the function at place j of the registration order of e is unsubscribed by
\* a callback of e at an earlier place
Detached(e, j) ==
    \E i \in 1..(j - 1) :
       /\ Body(Registered(e)[i].name).does = "off"
       /\ Body(Registered(e)[i].name).event = e
       /\ Body(Registered(e)[i].name).target = Registered(e)[j].name

\* the functions registered for e without those unsubscribed before their turn
Remaining(e) ==
    LET places == SelectSeq([j \in 1..Len(Registered(e)) |-> j],
                            LAMBDA j : ~Detached(e, j))
    IN  [k \in 1..Len(places) |-> Registered(e)[places[k]]]

\* C20 as amended: an emit of e calls the functions registered for e when
\* emit is called, once each, in registration order, with the data emitted,
\* except those that a callback called earlier in the same emit has
\* unsubscribed, which are not called; it calls no function registered for
\* other names only.
C20_RegisteredAtTurnCalled ==
    [][(EmitStep \/ ManagerStep) =>
          /\ OnlyEmitted
          /\ \A e \in EmittedNames : CalledInOrder(e, Remaining(e))]_vars

\* the first emit of stateChanged has called detach and then audit, and not
\* render, which was registered between them and which detach unsubscribed
C20_Witness ==
    /\ busOp.op = "emit" /\ busOp.event = "stateChanged"
    /\ busOps.emits = 1 /\ busOps.removals = 0
    /\ Len(delivered) = 2
    /\ delivered[1].fn = Fn("detach") /\ delivered[2].fn = Fn("audit")
    /\ "stateChanged" \in DOMAIN events
    /\ Len(events["stateChanged"].fns) = 2
    /\ events["stateChanged"].fns[2].stamp = events["stateChanged"].fns[1].stamp + 2

\* the number of calls the step made of the function f
TimesCalled(f) == Len(SelectSeq(delivered', LAMBDA c : c.fn = f))

\* C21: an emit of e calls a function subscribed with once at most once, also
\* when its callback throws or emits e itself, and after an emit that called
\* it the function is no longer registered for e.
C21_OnceAtMostOnce ==
    [][EmitStep =>
          \A e \in EventNames :
             \A f \in Wrappers(e) :
                /\ TimesCalled(f) <= 1
                /\ TimesCalled(f) = 1 => ~StillRegistered(f, e)]_vars


\* the places of f in the registration order of e before the step
Places(e, f) == { i \in 1..Len(Registered(e)) : Registered(e)[i] = f }

\* the number of calls the step made of f as a callback of e
TimesCalledFor(f, e) == Len(SelectSeq(Calls(e), LAMBDA c : c.fn = f))

C23_ChannelsIffListeners ==
    /\ [](\A e \in EventNames \cup DOMAIN events :
             e \in getEventNames(CurBus) <=> getListenerCount(CurBus, e) >= 1)
    /\ [][EmitStep =>
            /\ DOMAIN events' \subseteq DOMAIN events
            /\ busOp'.event \notin DOMAIN events
                  => (events' = events /\ delivered' = << >> /\ ~busOp'.threw)]_vars

\* the one function subscribed was unsubscribed by off, and no channel is left
C23_Witness ==
    /\ busOps.subscriptions = 1 /\ busOps.removals = 1 /\ busOps.emits = 0
    /\ busOp.op = "off"
    /\ getEventNames(CurBus) = {}


\* what getState() returns of a state that getInitialState() built, without
\* its updatedAt
InitialSnapshot ==
    LET fresh == getInitialState(CurState)
    IN  SansUpdatedAt(View(fresh.heap, Len(fresh.heap)))

\* C24: after reset(), whatever updates came before, getState() is the
\* initial snapshot apart from its timestamps, with no other key, the history
\* is empty, and the events of the call start with a stateChanged of source
\* 'reset' and all carry that source.
C24_ResetRestoresInitial ==
    [][lastOp'.op = "reset" =>
          /\ SansUpdatedAt(Returned') = InitialSnapshot
          /\ history' = << >> /\ observed'.history = << >>
          /\ Len(emitted') >= 1
          /\ emitted'[1] = Event("stateChanged", "", "", "reset")
          /\ \A i \in 1..Len(emitted') : emitted'[i].source = "reset"]_vars


\* C25: the updatedAt that getState() returns after an accepted setState is
\* strictly later than the updatedAt it returned before the call, however
\* little time passed between the two calls.
C25_UpdatedAtIncreases ==
    [][(AcceptedUpdate /\ ~IsInvalidUpdates(lastOp'.kind)) =>
          Returned'["updatedAt"].n > Returned["updatedAt"].n]_vars


(***************************************************************************)
(* Claims about stop(), start() and the interval of the StatusPoller.      *)
(***************************************************************************)
\* the step issues a getStatus request
Requests == log'.calls > log.calls

\* the step calls start() on a poller that is not polling
Starts == log'.sessions > log.sessions

\* C26: stop() cancels every pending cycle: whenever the poller is not
\* polling no timer is pending and timeoutId is null; a poller that is not
\* polling issues no getStatus request unless start() is called; stop() on a
\* poller that is not polling logs no statistics line, a stop() that ends
\* the polling logs one.
C26_StopIdempotent ==
    /\ [](~isPolling => (timeoutId = NULL /\ timers = {}))
    /\ [][/\ (~isPolling /\ Requests) => Starts
          /\ (~isPolling /\ ~isPolling' /\ ~Starts) => log'.statsLines = log.statsLines
          /\ (isPolling /\ ~isPolling' /\ ~Starts) => log'.statsLines = log.statsLines + 1]_vars


\* the step is a call of start() by the owner of the poller that found it
\* not polling: no response was handled in it
OwnerStarts == Starts /\ stats'.successfulRequests = stats.successfulRequests
                      /\ stats'.failedRequests = stats.failedRequests

\* C27: start() has an effect only on a poller that is not polling: a step
\* opens a session (and sets stats.startTime) only when the poller was not
\* polling before it or stop() ran in it; a step that opens none resets no
\* attempts, issues no request, and schedules at most the timer of the cycle
\* it ends. start() on a poller that is not polling leaves attempts = 0,
\* consecutiveErrors = 0 and currentInterval = options.interval, and the
\* request of the first cycle in flight, with no timer added.
C27_StartGuarded ==
    [][/\ Starts => (~isPolling \/ log'.statsLines > log.statsLines)
       /\ ~Starts =>
             /\ attempts' >= attempts
             /\ log'.calls <= log.calls + 1
             /\ log'.calls = log.calls + 1 => Cardinality(timers') < Cardinality(timers)
             /\ Cardinality(timers') <= Cardinality(timers) + 1
       /\ OwnerStarts =>
             /\ attempts' = 0 /\ consecutiveErrors' = 0
             /\ currentInterval' = options.interval
             /\ timers' \subseteq timers
             /\ isPolling' => /\ log'.calls = log.calls + 1
                              /\ \E r \in inflight' \ inflight : r.call = log'.calls]_vars

\* the first request of the first session failed, the poller was stopped and
\* started again: attempts and consecutiveErrors are 0 again and the
\* interval is options.interval, with the request of the new session in flight
C27_Witness ==
    /\ isPolling /\ log.sessions = 2 /\ log.calls = 2
    /\ stats.failedRequests = 1 /\ stats.successfulRequests = 0
    /\ options.backoffMultiplier = 2 /\ options.interval < options.maxInterval
    /\ attempts = 0 /\ consecutiveErrors = 0
    /\ currentInterval = options.interval
    /\ Cardinality(inflight) = 1


\* the step handles a getStatus result of success true
SuccessfulPoll == stats'.successfulRequests > stats.successfulRequests

\* the step delivers the pollingFailed payload to onUpdate
DeliversPollingFailed == log'.failedUpdates > log.failedUpdates

\* C28: a successful poll leaves consecutiveErrors at 0, and the poller
\* delivers the pollingFailed payload only when the maxConsecutiveErrors most
\* recent getStatus calls of the session all failed.
C28_TenFailuresInARow ==
    [][/\ SuccessfulPoll => consecutiveErrors' = 0
       /\ DeliversPollingFailed => log'.failedBefore >= maxConsecutiveErrors]_vars


\* the status of the result the step handed to onUpdate
Reported == log'.lastUpdate.status

\* the step handles a successful result whose status is not a final status
ReportsNonFinal ==
    /\ SuccessfulPoll
    /\ log'.lastUpdate.success /\ Reported \notin finalStatuses

\* the interval adjustPollingInterval chooses for the status reported
AdaptiveInterval ==
    IF Reported \in DOMAIN options.statusIntervals
    THEN options.statusIntervals[Reported]
    ELSE options.interval

\* C29: after a successful poll that reports a status that is not final,
\* with adaptivePolling enabled, currentInterval is statusIntervals[status]
\* when the table has the status and options.interval otherwise, whatever
\* backoff there was, and when the poller is still polling the next cycle is
\* scheduled after that interval.
C29_AdaptiveInterval ==
    [][(ReportsNonFinal /\ options.adaptivePolling) =>
          /\ currentInterval' = AdaptiveInterval
          /\ isPolling' => \E t \in timers' \ timers :
                              t.id = timeoutId' /\ t.delay = AdaptiveInterval]_vars

\* C30: after a successful poll that reports a status which statusIntervals
\* maps to 0, final or not, the poller is not polling and no cycle is
\* scheduled.
C30_ZeroIntervalStops ==
    [][(SuccessfulPoll /\ log'.lastUpdate.success /\ ~Starts
           /\ options.adaptivePolling
           /\ Reported \in DOMAIN options.statusIntervals
           /\ options.statusIntervals[Reported] = 0) =>
          /\ ~isPolling'
          /\ timers' \subseteq timers]_vars


\* C31: a getStatus call that returns success false, or rejects, leaves
\* stats.averageResponseTime as it was.
C31_AverageOverSuccesses ==
    [][(stats'.failedRequests > stats.failedRequests
           /\ stats'.successfulRequests = stats.successfulRequests)
          => stats'.averageResponseTime = stats.averageResponseTime]_vars


\* C40: whenever no request is in flight, stats.totalRequests is
\* stats.successfulRequests + stats.failedRequests; a poll whose result has
\* success true counts no failed request, whatever onUpdate does with it.
C40_EachCallCountedOnce ==
    /\ [](inflight = {} =>
             stats.totalRequests = stats.successfulRequests + stats.failedRequests)
    /\ [][SuccessfulPoll => stats'.failedRequests = stats.failedRequests]_vars


\* the step is a call that changes an object handed to setState as its update,
\* or an object inside one
MutatesPassed ==
    lastOp'.op = "mutate" /\ (lastOp'.via \in {"update", "array"} \/ lastOp'.passed)

\* the source label of the call of the step
SourceOfCall == IF lastOp'.op = "setDebugMode" THEN "debugMode" ELSE "caller"

\* C32: a setState that accepts its update pushes one history entry, a copy
\* of the state of before the call as getState() returned it, with the source
\* label of the call, and leaves the entries before it as they were; a
\* setState that rejects its argument pushes nothing; a change of an object
\* that was passed as an update changes no history entry.
C32_HistorySnapshots ==
    [][/\ PushesHistory =>
            /\ Len(history') = Len(history) + 1
            /\ SubSeq(history', 1, Len(history)) = history
            /\ SubSeq(HistoryStates', 1, Len(history)) = HistoryStates
            /\ HistoryStates'[Len(history')] = Returned
            /\ history'[Len(history')].source = SourceOfCall
            /\ history'[Len(history')].state > Len(heap)
       /\ (lastOp'.op = "setState" /\ IsInvalidUpdates(lastOp'.kind)) =>
            (history' = history /\ HistoryStates' = HistoryStates)
       /\ MutatesPassed =>
            (history' = history /\ HistoryStates' = HistoryStates)]_vars

\* an object passed as the plan of one update was changed after a second
\* update had pushed the state that holds it
C32_Witness ==
    /\ lastOp.op = "mutate" /\ lastOp.passed
    /\ Len(history) = 2
    /\ IsRef(heap[state].obj["plan"]) /\ heap[state].obj["plan"].n = lastOp.arg
    /\ IsObject(HistoryStates[2]["plan"])
    /\ View(heap, state)["plan"] # HistoryStates[2]["plan"]
    /\ history[2].source = "caller"


(***************************************************************************)
(* Claims about setState called from a callback of the bus.                *)
(***************************************************************************)
\* the positions of the events of the name in the list
EventsNamed(list, name) == {i \in 1..Len(list) : list[i].name = name}

\* the step is a setState during which a callback has called setState
Reentered ==
    /\ ops'.writes > ops.writes
    /\ lastOp'.op = "setState" /\ ~IsInvalidUpdates(lastOp'.kind)
    /\ Cardinality(EventsNamed(emitted', "stateChanged")) > 1

\* the newState objects made during the step; each is the payload of the
\* stateChanged that the setState that made it emits next
NewStates == {a \in DOMAIN heap' : a > Len(heap) /\ heap'[a].origin = "newState"}

\* C39: after a setState during which a callback has called setState, the to
\* of the last statusChanged emitted is the status that getState() returns,
\* and the newState of the last stateChanged emitted is the state.
C39_LastEventsAgree ==
    [][Reentered =>
          /\ \A i \in EventsNamed(emitted', "statusChanged") :
                (\A j \in EventsNamed(emitted', "statusChanged") : j <= i)
                   => emitted'[i].arg = Returned'["status"].p
          /\ \A a \in NewStates : a <= state'
          /\ state' \in NewStates]_vars


(***************************************************************************)
(* Claims about the ApiService.                                            *)
(***************************************************************************)
\* the pollers of the service that are polling
Polling == {i \in DOMAIN service.pollers : service.pollers[i].isPolling}

\* C33: of the StatusPollers that the service has made, at most one is
\* polling at any instant, and it is the one this.statusPoller refers to.
C33_OneActivePoller ==
    /\ Cardinality(Polling) <= 1
    /\ \A i \in Polling : service.statusPoller = i

\* the service has replaced a poller whose request was in flight by a second
\* poller, which is polling
C33_Witness ==
    /\ Len(service.pollers) = 2
    /\ ~service.pollers[1].isPolling /\ service.pollers[1].inflight # {}
    /\ service.pollers[2].isPolling /\ service.pollers[2].inflight # {}


\* the step is the settling of a getStatus call of one of the pollers
PollResult ==
    \E i \in DOMAIN service.pollers :
       \E r \in service.pollers[i].inflight : r \notin service'.pollers[i].inflight

\* the step is the settling of a call of the API client that op names
CallResult(op) == \E call \in service.calls : call.op = op /\ call \notin service'.calls

\* the step is the arrival of a background status refresh
StatusRefresh == PollResult \/ CallResult("gentle") \/ CallResult("getStatus")

\* C34: a status refresh in the background (the result of a poller, a
\* response of the gentle polling, an immediate status check) that arrives
\* while approvalStateLocked is true changes no field of the application
\* state.
C34_LockedStateUntouched ==
    [][(service.approvalStateLocked /\ StatusRefresh) => service'.app = service.app]_vars


\* no poller of the service is polling and none has a timer set
AllStopped(s) ==
    \A i \in DOMAIN s.pollers : ~s.pollers[i].isPolling /\ s.pollers[i].timers = {}

\* the getStatus calls that the poller at index i has issued
Issued(s, i) == IF i \in DOMAIN s.pollers THEN s.pollers[i].log.calls ELSE 0

\* the step is a result of a poller that moves the status to awaiting_approval
MovesToApproval ==
    /\ PollResult
    /\ service.app.status # "awaiting_approval"
    /\ service'.app.status = "awaiting_approval"

\* C35: when the result of a poller moves the status to awaiting_approval,
\* the step ends with approvalStateLocked set, this.statusPoller dropped and
\* every poller stopped with no timer set; a poller that is stopped sets no
\* timer and issues no request afterwards; and in a step that begins and
\* ends with the lock held no poller issues a getStatus call.
C35_ApprovalStopsPolling ==
    [][/\ MovesToApproval => /\ service'.approvalStateLocked
                             /\ service'.statusPoller = NULL
                             /\ AllStopped(service')
       /\ \A i \in DOMAIN service.pollers :
             (~service.pollers[i].isPolling /\ service.pollers[i].timers = {})
                => /\ ~service'.pollers[i].isPolling
                   /\ service'.pollers[i].timers = {}
                   /\ Issued(service', i) = Issued(service, i)
       /\ (service.approvalStateLocked /\ service'.approvalStateLocked)
             => \A i \in DOMAIN service'.pollers : Issued(service', i) = Issued(service, i)
       /\ service'.approvalStateLocked => AllStopped(service')]_vars

\* the plan is shown with the lock held, the poller that reported it is
\* stopped, and a second poller that the retry timer of startStatusPolling
\* started under the lock has stopped without a request
C35_Witness ==
    /\ service.approvalStateLocked /\ service.app.status = "awaiting_approval"
    /\ Len(service.pollers) = 2
    /\ Issued(service, 1) > 0 /\ Issued(service, 2) = 0
    /\ AllStopped(service) /\ service.statusPoller # NULL


\* C36: approvalStateLocked is set only while the status is
\* awaiting_approval.
C36_LockOnlyWhileAwaiting ==
    service.approvalStateLocked => service.app.status = "awaiting_approval"


\* an approval has failed, the user has reset the page and the backend has
\* accepted a new request, whose plan the page is waiting for; every timer
\* that is set can still start its poller
Resubmitted ==
    /\ service.log.retry = "resubmitted"
    /\ service.app.status = "planning"
    /\ service.app.threadId = "later"
    /\ Len(service.pollers) + service.timeouts.startStatusPolling
          + service.timeouts.retry <= MaxPollers

\* a poller of the new thread has received something else than a plan
OtherReply ==
    \E i \in DOMAIN service.pollers :
       /\ service.threads[i] = "later"
       /\ \/ service.pollers[i].stats.failedRequests > 0
          \/ service.pollers[i].log.lastUpdate.status \notin {"none"} \cup ApprovalStatuses

\* C37: after an approval that failed, a reset and a new request, the new
\* thread is polled and the status reaches awaiting_approval, unless the
\* status has left planning in another way or the backend has answered a
\* poller of the new thread with something else than a plan.
C37_NewWorkflowPolled ==
    Resubmitted ~> (\/ service.app.status = "awaiting_approval"
                    \/ service.app.status # "planning"
                    \/ OtherReply)


\* the last cancellation succeeded, no request was submitted since and the
\* page is idle
Cancelled == service.log.cancelled /\ service.app.status = "idle"

\* C38: after a cancellation that succeeded, and until the user submits a
\* new request, no result of the background polling (of a poller, of the
\* gentle polling, of an immediate status check) changes the status: it
\* stays idle.
C38_CancelledStaysIdle ==
    [][(Cancelled /\ StatusRefresh) => service'.app.status = "idle"]_vars

====
